---- MODULE Spec2Model ----
(***************************************************************************)
(* Mock IPL auction server.  Two server variants are modelled side by      *)
(* side: src/backend/server.js (prefix Srv_) and src/unnamed/part_000      *)
(* (prefix P0_).  The variable `variant` is fixed by Init and selects      *)
(* which handlers are enabled.                                             *)
(*                                                                         *)
(* Representation: a player object is represented by its sNo (1..NumItems);*)
(* its immutable fields are looked up in the catalog.  null is 0 for       *)
(* currentBidTeam and for "no current player".  Money is in rupees.        *)
(*                                                                         *)
(* rosterCap is the roster cap, the literal 8 of the source; Init picks it *)
(* from 1..MaxRoster.                                                      *)
(* emitted holds the events sent by the handler that ran last.  resets,    *)
(* loadOps and steps count events to bound a run.  lastAction is a history *)
(* variable: the auctioneer handler that ran last, whether it acted, the    *)
(* state it started from when it acted, and the number of items resolved   *)
(* so far in a run without undo and reset.                                 *)
(*                                                                         *)
(* Connections: sockets[s] is the socket object with id s: whether it is   *)
(* open, its membership of the rooms (auctioneer, the team rooms,          *)
(* observer) and, in part_000, its properties isAuctioneer and teamId.     *)
(* The fields socketId and isConnected of a team are kept outside the      *)
(* teams array, in teamSocketId and teamIsConnected; a snapshot stores     *)
(* isConnected of every team next to its teams (socketId is stored as      *)
(* undefined), and restoreAuctionSnapshot() keeps the current values.      *)
(* issuer                                                                  *)
(* is the socket whose event was handled last (0 for a stream event), and  *)
(* connEvents counts the events of the connection handlers.                *)
(*                                                                         *)
(* Persistence (part_000): dbConnected says whether the MongoDB client is  *)
(* connected.  saveState() returns at once when it is not, and the handler *)
(* that awaits it goes on in the same turn of the event loop; when it is,  *)
(* the handler is suspended at `await saveState()` and what it does        *)
(* afterwards (a broadcast) is queued in saving until the write returns.   *)
(* The stored document itself is not modelled.                             *)
(*                                                                         *)
(* call records one application of a helper function of the server: the    *)
(* function, its arguments and, once it has returned, what it returned.    *)
(* SpecFn applies the helper functions getCurrentPlayer, getIncrement,     *)
(* calculateSynergy and calculatePlayerSynergy to inputs drawn from        *)
(* bounded sets.                                                           *)
(*                                                                         *)
(* Spec explores the auction with the auctioneer joined and no other       *)
(* socket; SpecConn starts with no socket and adds the connection          *)
(* handlers; both run without a database connection.  SpecSave is the      *)
(* auction of part_000 with the database connected.                        *)
(***************************************************************************)
EXTENDS Integers, Sequences, FiniteSets, TLC

VARIABLES variant, rosterCap, players, sets, allPlayers, unsold, reAuctionUnsold,
          currentPlayerIndex, currentBid, currentBidTeam, isReAuction,
          teams, auctionHistory, loadStage, emitted, resets, loadOps, steps, lastAction,
          sockets, auctioneerConnected, teamSocketId, teamIsConnected, connectedTeams,
          issuer, connEvents, dbConnected, saving, call

vars == <<variant, rosterCap, players, sets, allPlayers, unsold, reAuctionUnsold,
          currentPlayerIndex, currentBid, currentBidTeam, isReAuction,
          teams, auctionHistory, loadStage, emitted, resets, loadOps, steps, lastAction,
          sockets, auctioneerConnected, teamSocketId, teamIsConnected, connectedTeams,
          issuer, connEvents, dbConnected, saving, call>>

\* the state of the connections
connVars == <<sockets, auctioneerConnected, teamSocketId, teamIsConnected, connectedTeams>>

-----------------------------------------------------------------------------
(* Bounds of the model.  The number of teams, the roster cap and the        *)
(* history capacity are 8, 8 and 50 in the source; they are scaled down so  *)
(* that full rosters and a full history are reached with a small catalog.   *)

\* number of teams (Array.from({ length: 8 }) in the source)
NumTeams == 2
\* number of valid rows of players.csv
NumItems == 3
\* largest roster cap explored (the cap is the literal 8 in the source)
MaxRoster == 2
\* capacity of auctionHistory (50 in the source)
MAX_HISTORY_SIZE == 2
\* the operator raises a standing bid at most this many times per item
MaxRaises == 1
\* auctioneer actions in one run
MaxSteps == 9
\* auctioneer actions in a run that resets the auction
MaxResetRunSteps == 6
\* socket events handled while a reload of players.csv is in progress
MaxLoadOps == 1
\* the operator resets the auction at most this many times
MaxResets == 1
\* handlers suspended at `await saveState()` at the same time
MaxPendingSaves == 1
\* sockets that connect in one run
NumSockets == 3
\* events of the connection handlers in one run
MaxConnEvents == 5
\* auctioneer actions in a run with events of the connection handlers
MaxConnRunSteps == 2

\* starting budget of every team
Budget == 450000000

NoPlayer == 0
NoTeam == 0
NoSocket == 0

TeamIds == 1..NumTeams
Sockets == 1..NumSockets
Variants == {"server", "part_000"}

-----------------------------------------------------------------------------
(* players.csv: the rows that pass validation.                              *)

\* the rows repeat with this period; every archetype code occurs in a period
ArchetypeCycle == <<"BA", "BO", "BA", "CS", "AN", "AO", "FI", "PA", "SP", "WK">>
\* rows 1 and 3 have the same archetype and base score and different prices
ScoreCycle == <<80, 70, 80, 50, 60, 65, 75, 55, 85, 90>>
PriceCycle == <<45, 2500, 1950, 95, 30, 50, 75, 100, 150, 200>>

\* one parsed row: basePrice = parseInt(Base_Price) * 100000
CsvPlayer(i) ==
    [sNo |-> i,
     archetype |-> ArchetypeCycle[((i - 1) % Len(ArchetypeCycle)) + 1],
     baseScore |-> ScoreCycle[((i - 1) % Len(ArchetypeCycle)) + 1],
     basePrice |-> PriceCycle[((i - 1) % Len(ArchetypeCycle)) + 1] * 100000]

basePrice(p) == CsvPlayer(p).basePrice
baseScore(p) == CsvPlayer(p).baseScore
archetype(p) == CsvPlayer(p).archetype

\* the allPlayers entry pushed for a row
FreshStatus(i) ==
    [sNo |-> i, status |-> "available", soldToTeam |-> NoTeam, soldPrice |-> 0]

-----------------------------------------------------------------------------
(* Sequence helpers.                                                        *)

Range(s) == {s[i] : i \in DOMAIN s}

Bijections(n) == {f \in [1..n -> 1..n] : \A i, j \in 1..n : f[i] = f[j] => i = j}

\* every reordering of s: players.sort(() => Math.random() - 0.5)
Shuffles(s) == {[i \in 1..Len(s) |-> s[f[i]]] : f \in Bijections(Len(s))}

\* Array.prototype.slice(from, to) with 0-based, clamped bounds
Slice(s, from, to) ==
    LET lo == IF from > Len(s) THEN Len(s) ELSE from
        hi == IF to > Len(s) THEN Len(s) ELSE to
    IN  IF hi <= lo THEN <<>> ELSE SubSeq(s, lo + 1, hi)

\* Math.ceil(n / d) for n >= 0, d > 0
CeilDiv(n, d) == (n + d - 1) \div d

\* Array.prototype.findIndex, 1-based; 0 when absent
RECURSIVE FindFrom(_, _, _)
FindFrom(s, x, i) ==
    IF i > Len(s) THEN 0
    ELSE IF s[i] = x THEN i
    ELSE FindFrom(s, x, i + 1)

IndexOf(s, x) == FindFrom(s, x, 1)

RECURSIVE SumSeq(_)
SumSeq(s) == IF s = <<>> THEN 0 ELSE Head(s) + SumSeq(Tail(s))

-----------------------------------------------------------------------------
(* Synergy.                                                                 *)

positiveRules ==
    ("AO-AN" :> 20) @@ ("BA-FI" :> 15) @@ ("AN-WK" :> 15) @@ ("BA-BO" :> 20) @@
    ("PA-SP" :> 25) @@ ("PA-PA" :> 10) @@ ("CS-PA" :> 20) @@ ("CS-SP" :> 15) @@
    ("BA-CS" :> 10) @@ ("BO-CS" :> 10)

negativeRules ==
    ("AO-AO" :> -15) @@ ("FI-FI" :> -10) @@ ("SP-SP" :> -5) @@ ("BA-BA" :> -5) @@
    ("WK-WK" :> -10) @@ ("CS-CS" :> -10) @@ ("BO-BO" :> -5)

\* the archetype codes in JavaScript string order
ArchetypeOrder == <<"AN", "AO", "BA", "BO", "CS", "FI", "PA", "SP", "WK">>

\* arch1 > arch2 on strings
StrGreater(a, b) == IndexOf(ArchetypeOrder, a) > IndexOf(ArchetypeOrder, b)

\* a key that keeps the order of its arguments
PairKey_Unordered(a, b) == a \o "-" \o b

\* if (arch1 > arch2) swap; key = `${arch1}-${arch2}`
PairKey(a, b) == IF StrGreater(a, b) THEN b \o "-" \o a ELSE a \o "-" \o b

\* synergyRules.positive[key] || 0  plus  synergyRules.negative[key] || 0
PairBonus(a, b) ==
    LET key == PairKey(a, b)
    IN  (IF key \in DOMAIN positiveRules THEN positiveRules[key] ELSE 0)
      + (IF key \in DOMAIN negativeRules THEN negativeRules[key] ELSE 0)

\* an argument that is not an array (null, undefined, a number, an object)
NotAList == <<-1>>

\* Array.isArray(roster)
IsArray(roster) == roster # NotAList

\* roster: a sequence of sNo, or NotAList
calculateSynergy(roster) ==
    IF ~IsArray(roster) \/ roster = <<>> THEN 0
    ELSE LET n == Len(roster)
             baseTotal == SumSeq([i \in 1..n |-> baseScore(roster[i])])
             pairs == SumSeq([i \in 1..n |->
                        SumSeq([j \in 1..n |->
                          IF j > i THEN PairBonus(archetype(roster[i]), archetype(roster[j]))
                          ELSE 0])])
         IN  baseTotal + pairs

\* an individual synergy that leaves out the base score of the player
calculatePlayerSynergy_PairsOnly(targetPlayer, roster) ==
    IF targetPlayer = NoPlayer \/ ~IsArray(roster) \/ roster = <<>> THEN 0
    ELSE LET playerIndex == IndexOf(roster, targetPlayer)
         IN  IF playerIndex = 0 THEN 0
             ELSE SumSeq([i \in 1..Len(roster) |->
                      IF i = playerIndex THEN 0
                      ELSE PairBonus(archetype(targetPlayer), archetype(roster[i]))])

\* function calculatePlayerSynergy(targetPlayer, roster)
calculatePlayerSynergy(targetPlayer, roster) ==
    IF targetPlayer = NoPlayer \/ ~IsArray(roster) \/ roster = <<>> THEN 0
    ELSE LET playerIndex == IndexOf(roster, targetPlayer)
         IN  IF playerIndex = 0 THEN 0
             ELSE baseScore(targetPlayer)
                  + SumSeq([i \in 1..Len(roster) |->
                      IF i = playerIndex THEN 0
                      ELSE PairBonus(archetype(targetPlayer), archetype(roster[i]))])

\* the sNo of every roster entry, in order
RosterIds(team) == [i \in 1..Len(team.players) |-> team.players[i].sNo]

-----------------------------------------------------------------------------
(* Helpers shared by both variants.                                         *)

\* function isValidTeamId(teamId)
isValidTeamId(teamId) == teamId >= 1 /\ teamId <= NumTeams

\* the roster check off by one: a full team may still bid
RosterFull_OffByOne(team) == Len(team.players) > rosterCap

\* team.players.length >= 8, with rosterCap for 8
RosterFull(team) == Len(team.players) >= rosterCap

\* function getIncrement(bid)
\* an increment that falls back to the smallest step for the highest bids
getIncrement_Dips(bid) ==
    IF bid < 5000000 THEN 500000
    ELSE IF bid < 10000000 THEN 1000000
    ELSE IF bid < 20000000 THEN 2000000
    ELSE 500000

\* function getIncrement(bid)
getIncrement(bid) ==
    IF bid < 5000000 THEN 500000
    ELSE IF bid < 10000000 THEN 1000000
    ELSE IF bid < 20000000 THEN 2000000
    ELSE 5000000

\* an opening bid that already adds an increment to the base price
NewBid_RaisesBase(player) ==
    IF currentBid = 0 THEN basePrice(player) + getIncrement(basePrice(player))
    ELSE currentBid + getIncrement(currentBid)

\* const newBid = currentBid === 0 ? player.basePrice : currentBid + getIncrement(currentBid)
NewBid(player) ==
    IF currentBid = 0 THEN basePrice(player) ELSE currentBid + getIncrement(currentBid)

\* the bid reached from base by k raises
RECURSIVE RaisedBid(_, _)
RaisedBid(base, k) ==
    IF k = 0 THEN base
    ELSE LET b == RaisedBid(base, k - 1) IN b + getIncrement(b)

\* the operator keeps bidding on an item only below this amount
OperatorBids(player) ==
    player = NoPlayer \/ currentBid < RaisedBid(basePrice(player), MaxRaises)

\* function updatePlayerStatus(playerSNo, status, soldToTeam, soldPrice):
\* only the first matching entry changes; a null/0 argument leaves the field
updatePlayerStatus(ap, playerSNo, status, soldToTeam, soldPrice) ==
    LET playerIndex == FindFrom([i \in 1..Len(ap) |-> ap[i].sNo], playerSNo, 1)
    IN  IF playerIndex = 0 THEN ap
        ELSE [ap EXCEPT ![playerIndex] =
                [sNo |-> @.sNo,
                 status |-> status,
                 soldToTeam |-> IF soldToTeam # NoTeam THEN soldToTeam ELSE @.soldToTeam,
                 soldPrice |-> IF soldPrice # 0 THEN soldPrice ELSE @.soldPrice]]

\* a history that is never trimmed
PushHistory_Unbounded(h, snapshot) == Append(h, snapshot)

\* auctionHistory.push(snapshot); if (length > MAX_HISTORY_SIZE) shift()
PushHistory(h, snapshot) ==
    LET h2 == Append(h, snapshot)
    IN  IF Len(h2) > MAX_HISTORY_SIZE THEN Tail(h2) ELSE h2

\* a sale that forgets to take the price off the remaining budget
\* an award that leaves the synergy of the team as it was
Award_StaleSynergy(team, player, price) ==
    [team EXCEPT
       !.players = Append(@, [sNo |-> player,
                              boughtPrice |-> price,
                              individualSynergy |->
                                 calculatePlayerSynergy(player, Append(RosterIds(team), player))]),
       !.spent = @ + price,
       !.remaining = @ - price]

\* an award that charges the price twice
Award_ChargesTwice(team, player, price) ==
    [team EXCEPT
       !.players = Append(@, [sNo |-> player,
                              boughtPrice |-> price,
                              individualSynergy |->
                                 calculatePlayerSynergy(player, Append(RosterIds(team), player))]),
       !.spent = @ + price + price,
       !.remaining = @ - price - price,
       !.synergy = calculateSynergy(Append(RosterIds(team), player))]

Award_KeepsRemaining(team, player, price) ==
    [team EXCEPT
       !.players = Append(@, [sNo |-> player,
                              boughtPrice |-> price,
                              individualSynergy |->
                                 calculatePlayerSynergy(player, Append(RosterIds(team), player))]),
       !.spent = @ + price,
       !.synergy = calculateSynergy(Append(RosterIds(team), player))]

\* the award pushed onto team.players and the ledger update of a sale
Award(team, player, price) ==
    [team EXCEPT
       !.players = Append(@, [sNo |-> player,
                              boughtPrice |-> price,
                              individualSynergy |->
                                 calculatePlayerSynergy(player, Append(RosterIds(team), player))]),
       !.spent = @ + price,
       !.remaining = @ - price,
       !.synergy = calculateSynergy(Append(RosterIds(team), player))]

\* the teams array at creation
InitialTeams ==
    [t \in TeamIds |->
       [id |-> t, budget |-> Budget, remaining |-> Budget, spent |-> 0,
        players |-> <<>>, synergy |-> 0]]

\* a partition that loses the third set
Partition_DropsLast(pl) ==
    LET playersPerSet == CeilDiv(Len(pl), 3)
    IN  <<Slice(pl, 0, playersPerSet),
          Slice(pl, playersPerSet, playersPerSet * 2),
          <<>>>>

\* sets = [slice(0, pps), slice(pps, 2 pps), slice(2 pps)]
Partition(pl) ==
    LET playersPerSet == CeilDiv(Len(pl), 3)
    IN  <<Slice(pl, 0, playersPerSet),
          Slice(pl, playersPerSet, playersPerSet * 2),
          Slice(pl, playersPerSet * 2, Len(pl))>>

\* allPlayers.sort by the index of the entry's sNo in players (stable)
RECURSIVE InsertByKey(_, _, _)
InsertByKey(sorted, x, pl) ==
    IF sorted = <<>> THEN <<x>>
    ELSE IF IndexOf(pl, x.sNo) < IndexOf(pl, Head(sorted).sNo)
         THEN <<x>> \o sorted
         ELSE <<Head(sorted)>> \o InsertByKey(Tail(sorted), x, pl)

RECURSIVE SortByPlayers(_, _)
SortByPlayers(ap, pl) ==
    IF ap = <<>> THEN <<>>
    ELSE InsertByKey(SortByPlayers(SubSeq(ap, 1, Len(ap) - 1), pl), ap[Len(ap)], pl)

Ev(name) == [ev |-> name]

\* the socketId fields of the team objects a payload holds as they are (not
\* copied with socketId: undefined), for the teams ts in order
SocketIdsOf(ts) == [i \in 1..Len(ts) |-> teamSocketId[ts[i]]]

\* socket.emit('error', msg): sent to the socket whose event is being handled
Err(msg) == [ev |-> "error", to |-> issuer', msg |-> msg]

\* socket.emit(name, ...) and io.to(socketId).emit(name, ...)
EvTo(name, s) == [ev |-> name, to |-> s]

\* the role test that opens every auctioneer handler, dropped
HoldsOperatorRole_Anyone(s) == TRUE

\* socket.rooms.has('auctioneer') in server.js, socket.isAuctioneer in part_000
HoldsOperatorRole(s) == sockets[s].auctioneer

\* the event is sent by an open socket that passes the role test
IssuedByAuctioneer ==
    \E s \in Sockets :
        /\ sockets[s].status = "open"
        /\ HoldsOperatorRole(s)
        /\ issuer' = s

\* what an observer of the auction can see of the state; cur is the value of
\* getCurrentPlayer()
Observed(cur) ==
    [currentPlayerIndex |-> currentPlayerIndex,
     currentBid |-> currentBid,
     currentBidTeam |-> currentBidTeam,
     isReAuction |-> isReAuction,
     unsold |-> unsold,
     reAuctionUnsold |-> reAuctionUnsold,
     teams |-> teams,
     allPlayers |-> allPlayers,
     currentPlayer |-> cur]

\* lastAction.resolved counts the sales and skips of a run in which neither
\* undoLastAction nor resetAuction was issued; it is -1 in every other run
ResolvedAfter(op, ok) ==
    IF lastAction.resolved < 0 \/ op \in {"undo", "reset"} THEN -1
    ELSE IF ok /\ op \in {"sold", "skip"} THEN lastAction.resolved + 1
    ELSE lastAction.resolved

\* the handler op has run on current player cur: it acted when its first
\* event is one of acts; for an undo that acted, savedIsConnected is what the
\* restored snapshot holds as isConnected of the teams
Remember(op, cur, acts) ==
    lastAction' =
        IF emitted' # <<>> /\ emitted'[1].ev \in acts
        THEN [op |-> op, ok |-> TRUE, pre |-> Observed(cur),
              resolved |-> ResolvedAfter(op, TRUE)]
             @@ (IF op = "undo"
                 THEN [savedIsConnected |->
                         auctionHistory[Len(auctionHistory)].state.isConnected]
                 ELSE <<>>)
        ELSE [op |-> op, ok |-> FALSE, resolved |-> ResolvedAfter(op, FALSE)]

\* the auctioneer actions explored in a run
StepBudget ==
    IF connEvents > 0 THEN MaxConnRunSteps
    ELSE IF resets = 0 THEN MaxSteps ELSE MaxResetRunSteps

\* a socket event of the auctioneer is handled: at most MaxSteps times in a run
\* (MaxResetRunSteps once the auction was reset), and at most MaxLoadOps times
\* while a reload is in progress
OperatorTurnCore ==
    /\ IssuedByAuctioneer
    /\ steps < StepBudget
    /\ steps' = steps + 1
    /\ UNCHANGED <<sockets, auctioneerConnected, connectedTeams, connEvents, dbConnected,
                   call>>
    /\ loadStage = "idle" \/ loadOps < MaxLoadOps
    /\ loadOps' = IF loadStage = "idle" THEN 0 ELSE loadOps + 1

\* the same for a handler that leaves socketId and isConnected of every team
\* alone (every handler but undoLastAction, which rebuilds the team objects)
OperatorTurn ==
    /\ OperatorTurnCore
    /\ UNCHANGED <<teamSocketId, teamIsConnected, saving>>

\* an undo that takes isConnected of every team from the snapshot
RestoredIsConnected_FromSnapshot(snapshot) == snapshot.state.isConnected

\* restoreAuctionSnapshot(): const currentIsConnected = teams[index].isConnected;
\* teams[index] = { ...savedTeam, socketId: currentSocketId, isConnected: currentIsConnected }
RestoredIsConnected(snapshot) == teamIsConnected

-----------------------------------------------------------------------------
(* Initial state: the server has started, the first loadPlayers() has       *)
(* completed on a fresh auction, and socket 1 has joined as auctioneer.     *)

\* a socket that has not connected yet
\* await saveState() and what the handler does when it returns: it broadcasts
\* the event `later`.  events are the events sent before the call.
AfterSave(events, later) ==
    /\ dbConnected => Len(saving) < MaxPendingSaves
    /\ emitted' = IF dbConnected THEN events ELSE Append(events, Ev(later))
    /\ saving' = IF dbConnected THEN Append(saving, later) ELSE saving

\* no helper function is being applied
NoCall == [fn |-> "none", args |-> <<>>, done |-> FALSE, result |-> <<>>]

NewSocket ==
    [status |-> "new", auctioneer |-> FALSE, observer |-> FALSE,
     teamRooms |-> {}, teamId |-> NoTeam]

\* a socket after its 'disconnect' event
ClosedSocket == [NewSocket EXCEPT !.status = "closed"]

CsvOrder == [i \in 1..NumItems |-> i]

Init ==
    /\ variant \in Variants
    /\ rosterCap \in 1..MaxRoster
    /\ players = CsvOrder
    /\ sets = Partition(players)
    /\ allPlayers = [i \in 1..NumItems |-> FreshStatus(players[i])]
    /\ unsold = <<>>
    /\ reAuctionUnsold = <<>>
    /\ currentPlayerIndex = 0
    /\ currentBid = 0
    /\ currentBidTeam = NoTeam
    /\ isReAuction = FALSE
    /\ teams = InitialTeams
    /\ auctionHistory = <<>>
    /\ loadStage = "idle"
    /\ emitted = <<>>
    /\ resets = 0
    /\ loadOps = 0
    /\ steps = 0
    /\ lastAction = [op |-> "none", ok |-> FALSE, resolved |-> 0]
    /\ sockets = [s \in Sockets |->
                    IF s = 1 THEN [NewSocket EXCEPT !.status = "open", !.auctioneer = TRUE]
                    ELSE NewSocket]
    /\ auctioneerConnected = TRUE
    /\ teamSocketId = [t \in TeamIds |-> NoSocket]
    /\ teamIsConnected = [t \in TeamIds |-> FALSE]
    /\ connectedTeams = {}
    /\ issuer = NoSocket
    /\ connEvents = 0
    /\ dbConnected = FALSE
    /\ saving = <<>>
    /\ call = NoCall

-----------------------------------------------------------------------------
(* loadPlayers(): the synchronous part runs inside the caller; the rows     *)
(* ('data') and the end of the file ('end') arrive in later turns of the    *)
(* event loop, between which socket handlers can run.                       *)

\* .on('data', row => { players.push(player); allPlayers.push({ ...player }) })
LoadData ==
    /\ loadStage = "reading"
    /\ players' = players \o CsvOrder
    /\ allPlayers' = allPlayers \o [i \in 1..NumItems |-> FreshStatus(i)]
    /\ loadStage' = "parsed"
    /\ emitted' = <<>>
    /\ issuer' = NoSocket
    /\ UNCHANGED <<loadOps, steps, lastAction, connVars, connEvents, dbConnected, saving,
                   call>>
    /\ UNCHANGED <<variant, rosterCap, sets, unsold, reAuctionUnsold, currentPlayerIndex,
                   currentBid, currentBidTeam, isReAuction, teams, auctionHistory, resets>>

\* .on('end'): shuffle, partition into sets, sort allPlayers, emitUpdate();
\* in part_000 resetAuction() then continues: await saveState(), then it emits
\* auctionReset
LoadEnd ==
    /\ loadStage = "parsed"
    /\ \E shuffled \in Shuffles(players) :
          /\ players' = shuffled
          /\ sets' = Partition(shuffled)
          /\ allPlayers' = SortByPlayers(allPlayers, shuffled)
    /\ loadStage' = "idle"
    /\ loadOps' = 0
    /\ issuer' = NoSocket
    /\ UNCHANGED <<steps, lastAction, connVars, connEvents, dbConnected, call>>
    /\ IF variant = "part_000"
       THEN AfterSave(<<Ev("update")>>, "auctionReset")
       ELSE emitted' = <<Ev("update")>> /\ saving' = saving
    /\ UNCHANGED <<variant, rosterCap, unsold, reAuctionUnsold, currentPlayerIndex,
                   currentBid, currentBidTeam, isReAuction, teams, auctionHistory, resets>>

-----------------------------------------------------------------------------
(* src/backend/server.js                                                    *)

\* function getCurrentPlayer()
Srv_getCurrentPlayer ==
    IF isReAuction
    THEN IF currentPlayerIndex >= Len(reAuctionUnsold) THEN NoPlayer
         ELSE reAuctionUnsold[currentPlayerIndex + 1]
    ELSE LET totalPlayers == Len(players)
         IN  IF currentPlayerIndex >= totalPlayers THEN NoPlayer
             ELSE LET setIndex == currentPlayerIndex \div CeilDiv(totalPlayers, 3)
                      indexInSet == currentPlayerIndex % CeilDiv(totalPlayers, 3)
                  IN  IF setIndex >= 3 THEN NoPlayer
                      ELSE IF indexInSet >= Len(sets[setIndex + 1]) THEN NoPlayer
                      ELSE sets[setIndex + 1][indexInSet + 1]

\* function createAuctionSnapshot(action, playerData): the snapshot record
Srv_Snapshot(action, playerData) ==
    [action |-> action,
     playerData |-> playerData,
     state |-> [currentPlayerIndex |-> currentPlayerIndex,
                currentBid |-> currentBid,
                currentBidTeam |-> currentBidTeam,
                isReAuction |-> isReAuction,
                teams |-> teams,
                isConnected |-> teamIsConnected,
                allPlayers |-> allPlayers]]

\* teams.reduce((best, team) => team.synergy > (best?.synergy || -Infinity) ? team : best, null)
\* over the teams array tms; (0 || -Infinity) is -Infinity
RECURSIVE Srv_WinnerFrom(_, _, _)
Srv_WinnerFrom(tms, best, t) ==
    IF t > NumTeams THEN best
    ELSE IF best = NoTeam \/ tms[best].synergy = 0
              \/ tms[t].synergy > tms[best].synergy
         THEN Srv_WinnerFrom(tms, t, t + 1)
         ELSE Srv_WinnerFrom(tms, best, t + 1)

\* the phase boundary and the broadcasts that end soldPlayer and skipPlayer,
\* entered after currentPlayerIndex++ with unsoldNow and teamsNow the unsold
\* list and the teams array as the handler has left them
Srv_AfterItem(first, unsoldNow, teamsNow) ==
    LET idx == currentPlayerIndex + 1
        startRe == ~isReAuction /\ idx >= Len(players) /\ Len(unsoldNow) > 0
        done == ~startRe
                /\ idx >= (IF isReAuction THEN Len(reAuctionUnsold) ELSE Len(players))
        idxNow == IF startRe THEN 0 ELSE idx
        reNow == isReAuction \/ startRe
        summary == /\ idxNow > 0
                   /\ Len(players) > 0
                   /\ idxNow % CeilDiv(Len(players), 3) = 0
                   /\ ~reNow
    IN  /\ isReAuction' = reNow
        /\ reAuctionUnsold' = (IF startRe THEN unsoldNow ELSE reAuctionUnsold)
        /\ unsold' = (IF startRe THEN <<>> ELSE unsoldNow)
        /\ currentPlayerIndex' = idxNow
        /\ currentBid' = 0
        /\ currentBidTeam' = NoTeam
        /\ emitted' =
              <<first>>
              \o (IF startRe
                  THEN <<[ev |-> "reAuctionStart", unsoldCount |-> Len(unsoldNow)]>>
                  ELSE IF done
                  THEN <<[ev |-> "auctionComplete",
                          winner |-> Srv_WinnerFrom(teamsNow, NoTeam, 1),
                          socketIds |-> SocketIdsOf(<<Srv_WinnerFrom(teamsNow, NoTeam, 1)>>)]>>
                  ELSE <<>>)
              \o (IF summary
                  THEN <<[ev |-> "setSummary",
                          socketIds |-> SocketIdsOf([t \in TeamIds |-> t])]>>
                  ELSE <<>>)
              \o <<Ev("update")>>

\* socket.on('placeBidForTeam', teamId), issued by the auctioneer
Srv_placeBidForTeam(teamId) ==
    /\ variant = "server"
    /\ OperatorTurn
    /\ OperatorBids(Srv_getCurrentPlayer)
    /\ LET currentPlayer == Srv_getCurrentPlayer
       IN  IF ~isValidTeamId(teamId)
           THEN /\ emitted' = <<Err("Invalid team ID")>>
                /\ UNCHANGED <<currentBid, currentBidTeam, auctionHistory>>
           ELSE IF currentPlayer = NoPlayer
           THEN /\ emitted' = <<Err("No player available for bidding")>>
                /\ UNCHANGED <<currentBid, currentBidTeam, auctionHistory>>
           ELSE IF RosterFull(teams[teamId])
           THEN /\ emitted' = <<Err("maximum players")>>
                /\ UNCHANGED <<currentBid, currentBidTeam, auctionHistory>>
           ELSE IF teams[teamId].remaining < NewBid(currentPlayer)
           THEN /\ emitted' = <<Err("insufficient funds")>>
                /\ UNCHANGED <<currentBid, currentBidTeam, auctionHistory>>
           ELSE /\ auctionHistory' =
                     PushHistory(auctionHistory,
                                 Srv_Snapshot("BEFORE_BID",
                                              [playerName |-> currentPlayer,
                                               teamId |-> teamId,
                                               amount |-> NewBid(currentPlayer)]))
                /\ currentBid' = NewBid(currentPlayer)
                /\ currentBidTeam' = teamId
                /\ emitted' = <<[ev |-> "bidPlaced", teamId |-> teamId,
                                 amount |-> NewBid(currentPlayer),
                                 playerName |-> currentPlayer],
                                Ev("update")>>
    /\ Remember("placeBid", Srv_getCurrentPlayer, {"bidPlaced"})
    /\ UNCHANGED <<variant, rosterCap, players, sets, allPlayers, unsold, reAuctionUnsold,
                   currentPlayerIndex, isReAuction, teams, loadStage, resets>>

\* socket.on('soldPlayer'), issued by the auctioneer
Srv_soldPlayer ==
    /\ variant = "server"
    /\ OperatorTurn
    /\ LET currentPlayer == Srv_getCurrentPlayer
       IN  IF currentPlayer = NoPlayer
           THEN /\ emitted' = <<Err("No player available to sell")>>
                /\ UNCHANGED <<allPlayers, unsold, reAuctionUnsold, currentPlayerIndex,
                               currentBid, currentBidTeam, isReAuction, teams>>
           ELSE IF currentBidTeam = NoTeam \/ currentBid = 0
           THEN /\ emitted' = <<Err("No valid bid to complete sale")>>
                /\ UNCHANGED <<allPlayers, unsold, reAuctionUnsold, currentPlayerIndex,
                               currentBid, currentBidTeam, isReAuction, teams>>
           ELSE IF teams[currentBidTeam].remaining < currentBid
           THEN /\ emitted' = <<Err("insufficient funds")>>
                /\ UNCHANGED <<allPlayers, unsold, reAuctionUnsold, currentPlayerIndex,
                               currentBid, currentBidTeam, isReAuction, teams>>
           ELSE /\ teams' = [teams EXCEPT ![currentBidTeam] =
                                Award(@, currentPlayer, currentBid)]
                /\ allPlayers' = updatePlayerStatus(allPlayers, currentPlayer, "sold",
                                                    currentBidTeam, currentBid)
                /\ Srv_AfterItem([ev |-> "playerSold", player |-> currentPlayer,
                                  teamId |-> currentBidTeam, amount |-> currentBid],
                                 unsold,
                                 [teams EXCEPT ![currentBidTeam] =
                                    Award(@, currentPlayer, currentBid)])
    /\ Remember("sold", Srv_getCurrentPlayer, {"playerSold"})
    /\ UNCHANGED <<variant, rosterCap, players, sets, auctionHistory, loadStage, resets>>

\* socket.on('skipPlayer'), issued by the auctioneer
Srv_skipPlayer ==
    /\ variant = "server"
    /\ OperatorTurn
    /\ LET currentPlayer == Srv_getCurrentPlayer
       IN  IF currentPlayer = NoPlayer
           THEN /\ emitted' = <<Err("No player available to skip")>>
                /\ UNCHANGED <<allPlayers, unsold, reAuctionUnsold, currentPlayerIndex,
                               currentBid, currentBidTeam, isReAuction>>
           ELSE /\ allPlayers' = updatePlayerStatus(allPlayers, currentPlayer, "unsold",
                                                    NoTeam, 0)
                /\ Srv_AfterItem([ev |-> "playerSkipped", player |-> currentPlayer],
                                 Append(unsold, currentPlayer), teams)
    /\ Remember("skip", Srv_getCurrentPlayer, {"playerSkipped"})
    /\ UNCHANGED <<variant, rosterCap, players, sets, teams, auctionHistory, loadStage, resets>>

\* a resetBid that clears the amount and keeps the bidder
Srv_resetBid_KeepsBidder ==
    /\ variant = "server"
    /\ OperatorTurn
    /\ IF Srv_getCurrentPlayer = NoPlayer
       THEN /\ emitted' = <<Err("No player available to reset bid")>>
            /\ UNCHANGED <<currentBid, currentBidTeam>>
       ELSE /\ currentBid' = 0
            /\ UNCHANGED currentBidTeam
            /\ emitted' = <<Ev("bidReset"), Ev("update")>>
    /\ Remember("resetBid", Srv_getCurrentPlayer, {"bidReset"})
    /\ UNCHANGED <<variant, rosterCap, players, sets, allPlayers, unsold, reAuctionUnsold,
                   currentPlayerIndex, isReAuction, teams, auctionHistory, loadStage, resets>>

\* socket.on('resetBid'), issued by the auctioneer
Srv_resetBid ==
    /\ variant = "server"
    /\ OperatorTurn
    /\ IF Srv_getCurrentPlayer = NoPlayer
       THEN /\ emitted' = <<Err("No player available to reset bid")>>
            /\ UNCHANGED <<currentBid, currentBidTeam>>
       ELSE /\ currentBid' = 0
            /\ currentBidTeam' = NoTeam
            /\ emitted' = <<Ev("bidReset"), Ev("update")>>
    /\ Remember("resetBid", Srv_getCurrentPlayer, {"bidReset"})
    /\ UNCHANGED <<variant, rosterCap, players, sets, allPlayers, unsold, reAuctionUnsold,
                   currentPlayerIndex, isReAuction, teams, auctionHistory, loadStage, resets>>

\* socket.on('undoLastAction'), issued by the auctioneer:
\* pop, then restoreAuctionSnapshot() when the entry is tagged BEFORE_BID
Srv_undoLastAction ==
    /\ variant = "server"
    /\ OperatorTurnCore
    /\ UNCHANGED saving
    /\ teamSocketId' = teamSocketId
    /\ IF auctionHistory = <<>>
       THEN /\ emitted' = <<Err("No actions to undo")>>
            /\ UNCHANGED <<allPlayers, currentPlayerIndex, currentBid, currentBidTeam,
                           isReAuction, teams, auctionHistory, teamIsConnected>>
       ELSE LET lastSnapshot == auctionHistory[Len(auctionHistory)]
            IN  /\ auctionHistory' = SubSeq(auctionHistory, 1, Len(auctionHistory) - 1)
                /\ IF lastSnapshot.action # "BEFORE_BID"
                   THEN /\ emitted' = <<Err("No valid bid action to undo")>>
                        /\ UNCHANGED <<allPlayers, currentPlayerIndex, currentBid,
                                       currentBidTeam, isReAuction, teams,
                                       teamIsConnected>>
                   ELSE /\ currentPlayerIndex' = lastSnapshot.state.currentPlayerIndex
                        /\ currentBid' = lastSnapshot.state.currentBid
                        /\ currentBidTeam' = lastSnapshot.state.currentBidTeam
                        /\ isReAuction' = lastSnapshot.state.isReAuction
                        /\ allPlayers' = lastSnapshot.state.allPlayers
                        /\ teams' = lastSnapshot.state.teams
                        /\ teamIsConnected' = RestoredIsConnected(lastSnapshot)
                        /\ emitted' = <<[ev |-> "undoCompleted",
                                         playerName |-> lastSnapshot.playerData.playerName],
                                        Ev("update")>>
    /\ Remember("undo", Srv_getCurrentPlayer, {"undoCompleted"})
    /\ UNCHANGED <<variant, rosterCap, players, sets, unsold, reAuctionUnsold, loadStage, resets>>

\* socket.on('resetAuction'), issued by the auctioneer: the synchronous part
\* of loadPlayers(), then auctionHistory = [] and the auctionReset broadcast
Srv_resetAuction ==
    /\ variant = "server"
    /\ IssuedByAuctioneer
    /\ steps < MaxResetRunSteps /\ steps < StepBudget
    /\ steps' = steps + 1
    /\ UNCHANGED <<connVars, connEvents, dbConnected, saving, call>>
    /\ loadOps' = 0
    /\ loadStage = "idle"
    /\ resets < MaxResets
    /\ resets' = resets + 1
    /\ players' = <<>>
    /\ allPlayers' = <<>>
    /\ auctionHistory' = <<>>
    /\ loadStage' = "reading"
    /\ emitted' = <<Ev("auctionReset")>>
    /\ lastAction' = [op |-> "reset", ok |-> TRUE, resolved |-> -1]
    /\ UNCHANGED <<variant, rosterCap, sets, unsold, reAuctionUnsold, currentPlayerIndex,
                   currentBid, currentBidTeam, isReAuction, teams>>

-----------------------------------------------------------------------------
(* src/unnamed/part_000                                                     *)

\* function getCurrentPlayer()
P0_getCurrentPlayer ==
    IF isReAuction
    THEN IF currentPlayerIndex < Len(reAuctionUnsold)
         THEN reAuctionUnsold[currentPlayerIndex + 1] ELSE NoPlayer
    ELSE LET totalPlayers == Len(players)
         IN  IF currentPlayerIndex >= totalPlayers THEN NoPlayer
             ELSE LET playersPerSet == CeilDiv(totalPlayers, 3)
                      setIndex == currentPlayerIndex \div playersPerSet
                      indexInSet == currentPlayerIndex % playersPerSet
                  IN  IF setIndex >= 3 THEN NoPlayer
                      ELSE IF indexInSet >= Len(sets[setIndex + 1]) THEN NoPlayer
                      ELSE sets[setIndex + 1][indexInSet + 1]

\* function validateBid(teamId, newBid): "ok" or the reason
P0_validateBid(teamId, newBid) ==
    IF ~isValidTeamId(teamId) THEN "Invalid team ID"
    ELSE IF P0_getCurrentPlayer = NoPlayer THEN "No player available"
    ELSE IF RosterFull(teams[teamId]) THEN "Team roster is full"
    ELSE IF teams[teamId].remaining < newBid THEN "Insufficient team budget"
    ELSE IF newBid <= 0 THEN "Bid must be positive"
    ELSE "ok"

\* function createAuctionSnapshot(action, playerData): the snapshot record
P0_Snapshot(action, playerData) ==
    [action |-> action,
     playerData |-> playerData,
     state |-> [currentPlayerIndex |-> currentPlayerIndex,
                currentBid |-> currentBid,
                currentBidTeam |-> currentBidTeam,
                isReAuction |-> isReAuction,
                unsold |-> unsold,
                reAuctionUnsold |-> reAuctionUnsold,
                teams |-> teams,
                isConnected |-> teamIsConnected,
                allPlayers |-> allPlayers]]

\* a before b in [...teams].sort((a, b) =>
\*   (b.synergy || 0) - (a.synergy || 0) || b.remaining - a.remaining)
P0_RanksBefore(a, b) ==
    \/ a.synergy > b.synergy
    \/ a.synergy = b.synergy /\ a.remaining > b.remaining

RECURSIVE P0_InsertRanked(_, _, _)
P0_InsertRanked(sorted, t, tms) ==
    IF sorted = <<>> THEN <<t>>
    ELSE IF P0_RanksBefore(tms[t], tms[Head(sorted)])
         THEN <<t>> \o sorted
         ELSE <<Head(sorted)>> \o P0_InsertRanked(Tail(sorted), t, tms)

RECURSIVE P0_SortedUpTo(_, _)
P0_SortedUpTo(tms, n) ==
    IF n = 0 THEN <<>>
    ELSE P0_InsertRanked(P0_SortedUpTo(tms, n - 1), n, tms)

\* function declareWinner(): the auctionComplete event
P0_declareWinner(tms) ==
    LET sortedTeams == P0_SortedUpTo(tms, NumTeams)
    IN  [ev |-> "auctionComplete", winner |-> sortedTeams[1], standings |-> sortedTeams,
         socketIds |-> SocketIdsOf(sortedTeams)]

\* the phase boundary that ends soldPlayer and skipPlayer, entered after
\* currentPlayerIndex++: handleReAuction() or declareWinner(), then emitUpdate()
P0_AfterItem(first, unsoldNow, teamsNow) ==
    LET idx == currentPlayerIndex + 1
        mainOver == idx >= Len(players) /\ ~isReAuction
        needyTeams == {t \in TeamIds : ~RosterFull(teamsNow[t])}
        startRe == mainOver /\ ~(needyTeams = {} \/ Len(unsoldNow) = 0)
        reOver == ~mainOver /\ isReAuction /\ idx >= Len(reAuctionUnsold)
    IN  /\ unsold' = unsoldNow
        /\ currentBid' = 0
        /\ currentBidTeam' = NoTeam
        /\ IF startRe
           THEN /\ reAuctionUnsold' \in Shuffles(unsoldNow)
                /\ currentPlayerIndex' = 0
                /\ isReAuction' = TRUE
                /\ AfterSave(<<first,
                               [ev |-> "reAuctionStart", unsoldCount |-> Len(unsoldNow)],
                               Ev("update")>>, "update")
           ELSE /\ UNCHANGED <<reAuctionUnsold, isReAuction>>
                /\ currentPlayerIndex' = idx
                /\ AfterSave(<<first>>
                             \o (IF mainOver \/ reOver
                                 THEN <<P0_declareWinner(teamsNow)>> ELSE <<>>),
                             "update")

\* socket.on('placeBidForTeam', teamId), issued by the auctioneer
P0_placeBidForTeam(teamId) ==
    /\ variant = "part_000"
    /\ OperatorTurn
    /\ OperatorBids(P0_getCurrentPlayer)
    /\ LET player == P0_getCurrentPlayer
       IN  IF player = NoPlayer
           THEN /\ emitted' = <<>>
                /\ UNCHANGED <<currentBid, currentBidTeam>>
           ELSE IF P0_validateBid(teamId, NewBid(player)) # "ok"
           THEN /\ emitted' = <<Err(P0_validateBid(teamId, NewBid(player)))>>
                /\ UNCHANGED <<currentBid, currentBidTeam>>
           ELSE /\ currentBid' = NewBid(player)
                /\ currentBidTeam' = teamId
                /\ emitted' = <<[ev |-> "bidPlaced", teamId |-> teamId,
                                 amount |-> NewBid(player), playerName |-> player],
                                Ev("update")>>
    /\ Remember("placeBid", P0_getCurrentPlayer, {"bidPlaced"})
    /\ UNCHANGED <<variant, rosterCap, players, sets, allPlayers, unsold, reAuctionUnsold,
                   currentPlayerIndex, isReAuction, teams, auctionHistory, loadStage, resets>>

\* socket.on('resetBid'), issued by the auctioneer
P0_resetBid ==
    /\ variant = "part_000"
    /\ OperatorTurn
    /\ IF P0_getCurrentPlayer = NoPlayer
       THEN /\ emitted' = <<>>
            /\ UNCHANGED <<currentBid, currentBidTeam>>
       ELSE /\ currentBid' = 0
            /\ currentBidTeam' = NoTeam
            /\ emitted' = <<Ev("bidReset"), Ev("update")>>
    /\ Remember("resetBid", P0_getCurrentPlayer, {"bidReset"})
    /\ UNCHANGED <<variant, rosterCap, players, sets, allPlayers, unsold, reAuctionUnsold,
                   currentPlayerIndex, isReAuction, teams, auctionHistory, loadStage, resets>>

\* socket.on('soldPlayer'), issued by the auctioneer
P0_soldPlayer ==
    /\ variant = "part_000"
    /\ OperatorTurnCore
    /\ UNCHANGED <<teamSocketId, teamIsConnected>>
    /\ LET player == P0_getCurrentPlayer
       IN  IF currentBidTeam = NoTeam \/ currentBid = 0 \/ player = NoPlayer
           THEN /\ emitted' = <<>>
                /\ UNCHANGED <<allPlayers, unsold, reAuctionUnsold, currentPlayerIndex,
                               currentBid, currentBidTeam, isReAuction, teams,
                               auctionHistory, saving>>
           ELSE IF teams[currentBidTeam].remaining < currentBid
           THEN /\ emitted' = <<>>
                /\ UNCHANGED <<allPlayers, unsold, reAuctionUnsold, currentPlayerIndex,
                               currentBid, currentBidTeam, isReAuction, teams,
                               auctionHistory, saving>>
           ELSE /\ auctionHistory' =
                     PushHistory(auctionHistory,
                                 P0_Snapshot("BEFORE_SOLD",
                                             [playerName |-> player,
                                              teamId |-> currentBidTeam,
                                              amount |-> currentBid]))
                /\ teams' = [teams EXCEPT ![currentBidTeam] =
                                Award(@, player, currentBid)]
                /\ allPlayers' = updatePlayerStatus(allPlayers, player, "sold",
                                                    currentBidTeam, currentBid)
                /\ P0_AfterItem([ev |-> "playerSold", player |-> player,
                                 teamId |-> currentBidTeam, amount |-> currentBid],
                                unsold,
                                [teams EXCEPT ![currentBidTeam] =
                                   Award(@, player, currentBid)])
    /\ Remember("sold", P0_getCurrentPlayer, {"playerSold"})
    /\ UNCHANGED <<variant, rosterCap, players, sets, loadStage, resets>>

\* socket.on('skipPlayer'), issued by the auctioneer
P0_skipPlayer ==
    /\ variant = "part_000"
    /\ OperatorTurnCore
    /\ UNCHANGED <<teamSocketId, teamIsConnected>>
    /\ LET player == P0_getCurrentPlayer
       IN  IF player = NoPlayer
           THEN /\ emitted' = <<>>
                /\ UNCHANGED <<allPlayers, unsold, reAuctionUnsold, currentPlayerIndex,
                               currentBid, currentBidTeam, isReAuction, auctionHistory,
                               saving>>
           ELSE /\ auctionHistory' =
                     PushHistory(auctionHistory,
                                 P0_Snapshot("BEFORE_SKIP", [playerName |-> player]))
                /\ allPlayers' = updatePlayerStatus(allPlayers, player, "available",
                                                    NoTeam, 0)
                /\ P0_AfterItem([ev |-> "playerSkipped", player |-> player],
                                Append(unsold, player), teams)
    /\ Remember("skip", P0_getCurrentPlayer, {"playerSkipped"})
    /\ UNCHANGED <<variant, rosterCap, players, sets, teams, loadStage, resets>>

\* socket.on('undoLastAction'), issued by the auctioneer:
\* pop, then restoreAuctionSnapshot()
P0_undoLastAction ==
    /\ variant = "part_000"
    /\ OperatorTurnCore
    /\ teamSocketId' = teamSocketId
    /\ IF auctionHistory = <<>>
       THEN /\ emitted' = <<>>
            /\ UNCHANGED <<allPlayers, unsold, reAuctionUnsold, currentPlayerIndex,
                           currentBid, currentBidTeam, isReAuction, teams, auctionHistory,
                           teamIsConnected, saving>>
       ELSE LET lastSnapshot == auctionHistory[Len(auctionHistory)]
            IN  /\ auctionHistory' = SubSeq(auctionHistory, 1, Len(auctionHistory) - 1)
                /\ currentPlayerIndex' = lastSnapshot.state.currentPlayerIndex
                /\ currentBid' = lastSnapshot.state.currentBid
                /\ currentBidTeam' = lastSnapshot.state.currentBidTeam
                /\ isReAuction' = lastSnapshot.state.isReAuction
                /\ unsold' = lastSnapshot.state.unsold
                /\ reAuctionUnsold' = lastSnapshot.state.reAuctionUnsold
                /\ allPlayers' = lastSnapshot.state.allPlayers
                /\ teams' = lastSnapshot.state.teams
                /\ teamIsConnected' = RestoredIsConnected(lastSnapshot)
                /\ AfterSave(<<[ev |-> "undoCompleted",
                                action |-> IF lastSnapshot.action = "BEFORE_SOLD"
                                           THEN "SOLD" ELSE "SKIP",
                                playerName |-> lastSnapshot.playerData.playerName]>>,
                             "update")
    /\ Remember("undo", P0_getCurrentPlayer, {"undoCompleted"})
    /\ UNCHANGED <<variant, rosterCap, players, sets, loadStage, resets>>

\* socket.on('resetAuction'), issued by the auctioneer: resetAuction() up to
\* its first await, including the synchronous part of loadPlayers()
P0_resetAuction ==
    /\ variant = "part_000"
    /\ IssuedByAuctioneer
    /\ steps < MaxResetRunSteps /\ steps < StepBudget
    /\ steps' = steps + 1
    /\ teamSocketId' = [t \in TeamIds |-> NoSocket]
    /\ teamIsConnected' = [t \in TeamIds |-> FALSE]
    /\ UNCHANGED <<sockets, auctioneerConnected, connectedTeams, connEvents, dbConnected,
                   saving, call>>
    /\ loadOps' = 0
    /\ loadStage = "idle"
    /\ resets < MaxResets
    /\ resets' = resets + 1
    /\ auctionHistory' = <<>>
    /\ unsold' = <<>>
    /\ reAuctionUnsold' = <<>>
    /\ currentPlayerIndex' = 0
    /\ currentBid' = 0
    /\ currentBidTeam' = NoTeam
    /\ isReAuction' = FALSE
    /\ teams' = InitialTeams
    /\ players' = <<>>
    /\ allPlayers' = <<>>
    /\ loadStage' = "reading"
    /\ emitted' = <<>>
    /\ lastAction' = [op |-> "reset", ok |-> TRUE, resolved |-> -1]
    /\ UNCHANGED <<variant, rosterCap, sets>>

-----------------------------------------------------------------------------
(* Connections.                                                             *)

\* everything but the connections, the events sent and the history variables
auctionVars == <<variant, rosterCap, players, sets, allPlayers, unsold, reAuctionUnsold,
                 currentPlayerIndex, currentBid, currentBidTeam, isReAuction,
                 teams, auctionHistory, loadStage, resets, loadOps, steps>>

\* an event of open socket s reaches a connection handler
ConnTurn(s) ==
    /\ sockets[s].status = "open"
    /\ connEvents < MaxConnEvents
    /\ connEvents' = connEvents + 1
    /\ issuer' = s
    /\ UNCHANGED <<auctionVars, dbConnected, saving, call>>

\* the connection handler op has run; ok when it granted what was asked.  arg
\* is the team id of joinAsTeam; for disconnect it is 1 when the handler could
\* still read the rooms or the properties of the socket, else 0
ConnRemember(op, ok, arg) ==
    lastAction' = [op |-> op, ok |-> ok, arg |-> arg, resolved |-> lastAction.resolved]

\* io.on('connection'): socket s connects; the ids are taken in order
Connection(s) ==
    /\ sockets[s].status = "new"
    /\ IF s = 1 THEN TRUE ELSE sockets[s - 1].status # "new"
    /\ connEvents < MaxConnEvents
    /\ connEvents' = connEvents + 1
    /\ issuer' = s
    /\ sockets' = [sockets EXCEPT ![s].status = "open"]
    /\ emitted' = IF variant = "part_000" THEN <<Ev("update")>> ELSE <<>>
    /\ ConnRemember("connection", TRUE, 0)
    /\ UNCHANGED <<auctioneerConnected, teamSocketId, teamIsConnected, connectedTeams>>
    /\ UNCHANGED <<auctionVars, dbConnected, saving, call>>

\* teams.findIndex(team => team.socketId === socket.id) + 1; 0 when absent
Srv_TeamIndexOf(s) ==
    LET held == {t \in TeamIds : teamSocketId[t] = s}
    IN  IF held = {} THEN 0 ELSE CHOOSE t \in held : \A u \in held : t <= u

\* socket.on('disconnect') of server.js for socket s.  roomsKept: whether
\* socket.rooms still holds the rooms of the socket when the handler runs
\* (socket.io leaves the rooms before it emits 'disconnect')
Srv_onDisconnect(s, roomsKept) ==
    LET wasAuctioneer == roomsKept /\ sockets[s].auctioneer
        teamIndex == Srv_TeamIndexOf(s)
    IN  /\ auctioneerConnected' = (IF wasAuctioneer THEN FALSE ELSE auctioneerConnected)
        /\ teamSocketId' = (IF teamIndex # 0
                            THEN [teamSocketId EXCEPT ![teamIndex] = NoSocket]
                            ELSE teamSocketId)
        /\ teamIsConnected' = (IF teamIndex # 0
                               THEN [teamIsConnected EXCEPT ![teamIndex] = FALSE]
                               ELSE teamIsConnected)
        /\ connectedTeams' = (IF teamIndex # 0 THEN connectedTeams \ {teamIndex}
                              ELSE connectedTeams)
        /\ sockets' = [sockets EXCEPT ![s] = ClosedSocket]

\* the broadcasts of that handler
Srv_DisconnectEvents(s, roomsKept) ==
    (IF roomsKept /\ sockets[s].auctioneer THEN <<Ev("connectionStatus")>> ELSE <<>>)
    \o (IF Srv_TeamIndexOf(s) # 0 THEN <<Ev("connectionStatus")>> ELSE <<>>)

\* a join that never finds the auctioneer slot taken
OperatorSlotTaken_Never == FALSE

\* if (auctioneerConnected): the test that opens joinAsAuctioneer
OperatorSlotTaken == auctioneerConnected

\* socket.on('joinAsAuctioneer') of server.js
Srv_joinAsAuctioneer(s) ==
    /\ variant = "server"
    /\ ConnTurn(s)
    /\ IF OperatorSlotTaken
       THEN /\ emitted' = <<EvTo("forceDisconnect", s)>>
            /\ ConnRemember("joinAsAuctioneer", FALSE, 0)
            /\ UNCHANGED connVars
       ELSE /\ auctioneerConnected' = TRUE
            /\ sockets' = [sockets EXCEPT ![s].auctioneer = TRUE]
            /\ emitted' = <<EvTo("connectionStatus", s), Ev("update")>>
            /\ ConnRemember("joinAsAuctioneer", TRUE, 0)
            /\ UNCHANGED <<teamSocketId, teamIsConnected, connectedTeams>>

\* socket.on('joinAsTeam', teamId) of server.js
Srv_joinAsTeam(s, teamId) ==
    /\ variant = "server"
    /\ ConnTurn(s)
    /\ IF ~isValidTeamId(teamId)
       THEN \E roomsKept \in BOOLEAN :
              /\ Srv_onDisconnect(s, roomsKept)
              /\ emitted' = <<Err("Invalid team ID")>> \o Srv_DisconnectEvents(s, roomsKept)
              /\ ConnRemember("joinAsTeam", FALSE, teamId)
       ELSE IF teamSocketId[teamId] # NoSocket /\ teamIsConnected[teamId]
       THEN /\ emitted' = <<EvTo("forceDisconnect", s)>>
            /\ ConnRemember("joinAsTeam", FALSE, teamId)
            /\ UNCHANGED connVars
       ELSE /\ teamSocketId' = [teamSocketId EXCEPT ![teamId] = s]
            /\ teamIsConnected' = [teamIsConnected EXCEPT ![teamId] = TRUE]
            /\ connectedTeams' = connectedTeams \cup {teamId}
            /\ sockets' = [sockets EXCEPT ![s].teamRooms = @ \cup {teamId}]
            /\ emitted' = <<EvTo("connectionStatus", s), EvTo("update", s),
                            Ev("connectionStatus")>>
            /\ ConnRemember("joinAsTeam", TRUE, teamId)
            /\ UNCHANGED auctioneerConnected

\* socket.on('joinAsObserver') of server.js
Srv_joinAsObserver(s) ==
    /\ variant = "server"
    /\ ConnTurn(s)
    /\ sockets' = [sockets EXCEPT ![s].observer = TRUE]
    /\ emitted' = <<Ev("update")>>
    /\ ConnRemember("joinAsObserver", TRUE, 0)
    /\ UNCHANGED <<auctioneerConnected, teamSocketId, teamIsConnected, connectedTeams>>

\* socket.on('disconnect') of server.js: the client of socket s goes away
Srv_disconnect(s) ==
    /\ variant = "server"
    /\ ConnTurn(s)
    /\ \E roomsKept \in BOOLEAN :
          /\ Srv_onDisconnect(s, roomsKept)
          /\ emitted' = Srv_DisconnectEvents(s, roomsKept)
          /\ ConnRemember("disconnect", TRUE, IF roomsKept THEN 1 ELSE 0)

\* the role test that opens placeBidForTeam, soldPlayer, skipPlayer, resetBid,
\* undoLastAction and resetAuction in server.js, failing for socket s
Srv_NotAuctioneer(s, event) ==
    /\ variant = "server"
    /\ ConnTurn(s)
    /\ ~HoldsOperatorRole(s)
    /\ emitted' = <<Err("Only auctioneer")>>
    /\ lastAction' = [op |-> "unauthorized", ok |-> FALSE, event |-> event,
                      resolved |-> lastAction.resolved]
    /\ UNCHANGED connVars

\* socket.on('disconnect') of part_000 for socket s
P0_onDisconnect(s) ==
    LET teamId == sockets[s].teamId
        bound == teamId # NoTeam /\ teamSocketId[teamId] = s
    IN  /\ auctioneerConnected' = (IF sockets[s].auctioneer THEN FALSE
                                   ELSE auctioneerConnected)
        /\ teamSocketId' = (IF bound THEN [teamSocketId EXCEPT ![teamId] = NoSocket]
                            ELSE teamSocketId)
        /\ teamIsConnected' = (IF bound THEN [teamIsConnected EXCEPT ![teamId] = FALSE]
                               ELSE teamIsConnected)
        /\ connectedTeams' = (IF bound THEN connectedTeams \ {teamId} ELSE connectedTeams)
        /\ sockets' = [sockets EXCEPT ![s] = ClosedSocket]

\* socket.on('joinAsAuctioneer') of part_000
P0_joinAsAuctioneer(s) ==
    /\ variant = "part_000"
    /\ ConnTurn(s)
    /\ IF OperatorSlotTaken
       THEN /\ P0_onDisconnect(s)
            /\ emitted' = <<EvTo("forceDisconnect", s), Ev("update"),
                            Ev("connectionStatus")>>
            /\ ConnRemember("joinAsAuctioneer", FALSE, 0)
       ELSE /\ auctioneerConnected' = TRUE
            /\ sockets' = [sockets EXCEPT ![s].auctioneer = TRUE]
            /\ emitted' = <<Ev("update"), Ev("connectionStatus")>>
            /\ ConnRemember("joinAsAuctioneer", TRUE, 0)
            /\ UNCHANGED <<teamSocketId, teamIsConnected, connectedTeams>>

\* socket.on('joinAsTeam', teamId) of part_000
P0_joinAsTeam(s, teamId) ==
    /\ variant = "part_000"
    /\ ConnTurn(s)
    /\ IF ~isValidTeamId(teamId)
       THEN /\ emitted' = <<Err("Invalid team ID")>>
            /\ ConnRemember("joinAsTeam", FALSE, teamId)
            /\ UNCHANGED connVars
       ELSE /\ teamSocketId' = [teamSocketId EXCEPT ![teamId] = s]
            /\ teamIsConnected' = [teamIsConnected EXCEPT ![teamId] = TRUE]
            /\ connectedTeams' = connectedTeams \cup {teamId}
            /\ sockets' = [sockets EXCEPT ![s].teamRooms = @ \cup {teamId},
                                          ![s].teamId = teamId]
            /\ emitted' =
                 (IF teamSocketId[teamId] # NoSocket /\ teamSocketId[teamId] # s
                  THEN <<EvTo("forceDisconnect", teamSocketId[teamId])>> ELSE <<>>)
                 \o <<Ev("update"), Ev("connectionStatus")>>
            /\ ConnRemember("joinAsTeam", TRUE, teamId)
            /\ UNCHANGED auctioneerConnected

\* socket.on('joinAsObserver') of part_000
P0_joinAsObserver(s) ==
    /\ variant = "part_000"
    /\ ConnTurn(s)
    /\ sockets' = [sockets EXCEPT ![s].observer = TRUE]
    /\ emitted' = <<Ev("update")>>
    /\ ConnRemember("joinAsObserver", TRUE, 0)
    /\ UNCHANGED <<auctioneerConnected, teamSocketId, teamIsConnected, connectedTeams>>

\* socket.on('disconnect') of part_000: the client of socket s goes away
P0_disconnect(s) ==
    /\ variant = "part_000"
    /\ ConnTurn(s)
    /\ P0_onDisconnect(s)
    /\ emitted' = <<Ev("update"), Ev("connectionStatus")>>
    /\ ConnRemember("disconnect", TRUE, 1)

\* if (!socket.isAuctioneer) return; at the head of the auctioneer handlers of
\* part_000, taken for socket s
P0_NotAuctioneer(s, event) ==
    /\ variant = "part_000"
    /\ ConnTurn(s)
    /\ ~HoldsOperatorRole(s)
    /\ emitted' = <<>>
    /\ lastAction' = [op |-> "unauthorized", ok |-> FALSE, event |-> event,
                      resolved |-> lastAction.resolved]
    /\ UNCHANGED connVars

\* the events of the auctioneer handlers
OperatorEvents ==
    {"placeBidForTeam", "soldPlayer", "skipPlayer", "resetBid", "undoLastAction",
     "resetAuction"}

-----------------------------------------------------------------------------
Next ==
    \/ \E teamId \in 1..(NumTeams + 1) : Srv_placeBidForTeam(teamId)
    \/ Srv_soldPlayer
    \/ Srv_skipPlayer
    \/ Srv_resetBid
    \/ Srv_undoLastAction
    \/ Srv_resetAuction
    \/ \E teamId \in 1..(NumTeams + 1) : P0_placeBidForTeam(teamId)
    \/ P0_soldPlayer
    \/ P0_skipPlayer
    \/ P0_resetBid
    \/ P0_undoLastAction
    \/ P0_resetAuction
    \/ LoadData
    \/ LoadEnd

Spec == Init /\ [][Next]_vars

\* the server has started and no socket has connected
ConnInit ==
    /\ variant \in Variants
    /\ rosterCap = MaxRoster
    /\ players = CsvOrder
    /\ sets = Partition(players)
    /\ allPlayers = [i \in 1..NumItems |-> FreshStatus(players[i])]
    /\ unsold = <<>>
    /\ reAuctionUnsold = <<>>
    /\ currentPlayerIndex = 0
    /\ currentBid = 0
    /\ currentBidTeam = NoTeam
    /\ isReAuction = FALSE
    /\ teams = InitialTeams
    /\ auctionHistory = <<>>
    /\ loadStage = "idle"
    /\ emitted = <<>>
    /\ resets = 0
    /\ loadOps = 0
    /\ steps = 0
    /\ lastAction = [op |-> "none", ok |-> FALSE, resolved |-> 0]
    /\ sockets = [s \in Sockets |-> NewSocket]
    /\ auctioneerConnected = FALSE
    /\ teamSocketId = [t \in TeamIds |-> NoSocket]
    /\ teamIsConnected = [t \in TeamIds |-> FALSE]
    /\ connectedTeams = {}
    /\ issuer = NoSocket
    /\ connEvents = 0
    /\ dbConnected = FALSE
    /\ saving = <<>>
    /\ call = NoCall

ConnNext ==
    \/ \E s \in Sockets : Connection(s)
    \/ \E s \in Sockets : Srv_joinAsAuctioneer(s)
    \/ \E s \in Sockets : \E teamId \in 1..(NumTeams + 1) : Srv_joinAsTeam(s, teamId)
    \/ \E s \in Sockets : Srv_joinAsObserver(s)
    \/ \E s \in Sockets : Srv_disconnect(s)
    \/ \E s \in Sockets : \E event \in OperatorEvents : Srv_NotAuctioneer(s, event)
    \/ \E s \in Sockets : P0_joinAsAuctioneer(s)
    \/ \E s \in Sockets : \E teamId \in 1..(NumTeams + 1) : P0_joinAsTeam(s, teamId)
    \/ \E s \in Sockets : P0_joinAsObserver(s)
    \/ \E s \in Sockets : P0_disconnect(s)
    \/ \E s \in Sockets : \E event \in OperatorEvents : P0_NotAuctioneer(s, event)
    \/ Next

SpecConn == ConnInit /\ [][ConnNext]_vars

-----------------------------------------------------------------------------
(* part_000 with the database connected.                                    *)

\* the write of saveState() returns and the oldest suspended handler goes on:
\* emitUpdate(), or io.emit('auctionReset') in resetAuction()
P0_SaveDone ==
    /\ variant = "part_000"
    /\ saving # <<>>
    /\ emitted' = <<Ev(Head(saving))>>
    /\ saving' = Tail(saving)
    /\ issuer' = NoSocket
    /\ UNCHANGED <<auctionVars, lastAction, connVars, connEvents, dbConnected, call>>

\* part_000 has started with the database connected and an empty store, and
\* the auctioneer has joined
SaveInit ==
    /\ variant = "part_000"
    /\ rosterCap \in 1..MaxRoster
    /\ players = CsvOrder
    /\ sets = Partition(players)
    /\ allPlayers = [i \in 1..NumItems |-> FreshStatus(players[i])]
    /\ unsold = <<>>
    /\ reAuctionUnsold = <<>>
    /\ currentPlayerIndex = 0
    /\ currentBid = 0
    /\ currentBidTeam = NoTeam
    /\ isReAuction = FALSE
    /\ teams = InitialTeams
    /\ auctionHistory = <<>>
    /\ loadStage = "idle"
    /\ emitted = <<>>
    /\ resets = 0
    /\ loadOps = 0
    /\ steps = 0
    /\ lastAction = [op |-> "none", ok |-> FALSE, resolved |-> 0]
    /\ sockets = [s \in Sockets |->
                    IF s = 1 THEN [NewSocket EXCEPT !.status = "open", !.auctioneer = TRUE]
                    ELSE NewSocket]
    /\ auctioneerConnected = TRUE
    /\ teamSocketId = [t \in TeamIds |-> NoSocket]
    /\ teamIsConnected = [t \in TeamIds |-> FALSE]
    /\ connectedTeams = {}
    /\ issuer = NoSocket
    /\ connEvents = 0
    /\ dbConnected = TRUE
    /\ saving = <<>>
    /\ call = NoCall

SaveNext ==
    \/ \E teamId \in 1..(NumTeams + 1) : P0_placeBidForTeam(teamId)
    \/ P0_soldPlayer
    \/ P0_skipPlayer
    \/ P0_resetBid
    \/ P0_undoLastAction
    \/ P0_resetAuction
    \/ LoadData
    \/ LoadEnd
    \/ P0_SaveDone

SpecSave == SaveInit /\ [][SaveNext]_vars

-----------------------------------------------------------------------------
(* The helper functions, applied to inputs drawn from bounded sets.         *)

\* largest catalog and largest roster the functions are applied to
MaxCatalog == 4
\* the bids getIncrement is applied to are the multiples of minIncrement up to
\* MaxBidUnits of them, and the neighbours of its thresholds
MaxBidUnits == 50
minIncrement == 500000

\* everything the functions do not read
FnIdle ==
    /\ variant \in Variants
    /\ rosterCap = MaxRoster
    /\ teams = InitialTeams
    /\ auctionHistory = <<>>
    /\ loadStage = "idle"
    /\ emitted = <<>>
    /\ resets = 0
    /\ loadOps = 0
    /\ steps = 0
    /\ lastAction = [op |-> "none", ok |-> FALSE, resolved |-> 0]
    /\ sockets = [s \in Sockets |->
                    IF s = 1 THEN [NewSocket EXCEPT !.status = "open", !.auctioneer = TRUE]
                    ELSE NewSocket]
    /\ auctioneerConnected = TRUE
    /\ teamSocketId = [t \in TeamIds |-> NoSocket]
    /\ teamIsConnected = [t \in TeamIds |-> FALSE]
    /\ connectedTeams = {}
    /\ issuer = NoSocket
    /\ connEvents = 0
    /\ dbConnected = FALSE
    /\ saving = <<>>

\* the catalog as loaded at startup, nothing auctioned
FnCatalog ==
    /\ players = CsvOrder
    /\ sets = Partition(players)
    /\ allPlayers = [i \in 1..NumItems |-> FreshStatus(players[i])]
    /\ unsold = <<>>
    /\ reAuctionUnsold = <<>>
    /\ currentPlayerIndex = 0
    /\ isReAuction = FALSE

ToCall(fn, args) == [fn |-> fn, args |-> args, done |-> FALSE, result |-> <<>>]

Reversed(q) == [i \in 1..Len(q) |-> q[Len(q) + 1 - i]]

\* getCurrentPlayer() reads players, sets, isReAuction, reAuctionUnsold and
\* currentPlayerIndex: a shuffled catalog of n items partitioned by
\* loadPlayers(), in the main phase or in a re-auction of the whole catalog,
\* and an index up to one past the end
CurInit ==
    /\ FnIdle
    /\ \E n \in 1..MaxCatalog :
          /\ players \in Shuffles([i \in 1..n |-> i])
          /\ currentPlayerIndex \in 0..(n + 1)
    /\ sets = Partition(players)
    /\ allPlayers = [i \in 1..Len(players) |-> FreshStatus(players[i])]
    /\ isReAuction \in BOOLEAN
    /\ unsold = IF isReAuction THEN players ELSE <<>>
    /\ reAuctionUnsold \in (IF isReAuction
                            THEN {Slice(q, 0, k) : q \in {unsold, Reversed(unsold)},
                                                  k \in 1..Len(unsold)}
                            ELSE {<<>>})
    /\ currentBid = 0
    /\ currentBidTeam = NoTeam
    /\ call = ToCall("getCurrentPlayer", <<>>)

\* the function returns: call holds what it returned
Returns(result) == call' = [call EXCEPT !.done = TRUE, !.result = result]

Apply_getCurrentPlayer ==
    /\ call.fn = "getCurrentPlayer" /\ ~call.done
    /\ Returns(<<IF variant = "server" THEN Srv_getCurrentPlayer
                 ELSE P0_getCurrentPlayer>>)
    /\ UNCHANGED <<auctionVars, emitted, lastAction, connVars, issuer, connEvents,
                   dbConnected, saving>>

\* the bids getIncrement is applied to
BidProbe ==
    {k * minIncrement : k \in 0..MaxBidUnits}
    \cup {t + d : t \in {5000000, 10000000, 20000000}, d \in {-1, 1}}

\* getIncrement(bid) for two bids a <= b
IncInit ==
    /\ FnIdle
    /\ FnCatalog
    /\ currentBid = 0
    /\ currentBidTeam = NoTeam
    /\ \E a, b \in BidProbe : a <= b /\ call = ToCall("getIncrement", <<a, b>>)

Apply_getIncrement ==
    /\ call.fn = "getIncrement" /\ ~call.done
    /\ Returns(<<getIncrement(call.args[1]), getIncrement(call.args[2])>>)
    /\ UNCHANGED <<auctionVars, emitted, lastAction, connVars, issuer, connEvents,
                   dbConnected, saving>>

\* the rosters of distinct items of a catalog of MaxCatalog rows
Rosters ==
    {Slice(q, 0, k) : q \in Shuffles([i \in 1..MaxCatalog |-> i]), k \in 0..MaxCatalog}

\* the rosters of two rows of a catalog in which every archetype occurs twice
RulePairs ==
    {<<i, j>> : i, j \in 1..(2 * Len(ArchetypeCycle))} \ {<<i, i>> : i \in 1..(2 * Len(ArchetypeCycle))}

\* calculateSynergy(roster) for a roster, or a value that is no array, and a
\* reordering of it
SynInit ==
    /\ FnIdle
    /\ FnCatalog
    /\ currentBid = 0
    /\ currentBidTeam = NoTeam
    /\ \E roster \in Rosters \cup RulePairs \cup {NotAList} :
          \E permuted \in Shuffles(roster) :
             call = ToCall("calculateSynergy", <<roster, permuted>>)

Apply_calculateSynergy ==
    /\ call.fn = "calculateSynergy" /\ ~call.done
    /\ Returns(<<calculateSynergy(call.args[1]), calculateSynergy(call.args[2])>>)
    /\ UNCHANGED <<auctionVars, emitted, lastAction, connVars, issuer, connEvents,
                   dbConnected, saving>>

\* the sale of item p to a team with roster R:
\* calculatePlayerSynergy(p, [...R, p]), calculateSynergy([...R, p])
PlayerSynInit ==
    /\ FnIdle
    /\ FnCatalog
    /\ currentBid = 0
    /\ currentBidTeam = NoTeam
    /\ \E R \in Rosters :
          \E p \in (1..MaxCatalog) \ Range(R) :
             call = ToCall("calculatePlayerSynergy", <<p, R>>)

Apply_calculatePlayerSynergy ==
    /\ call.fn = "calculatePlayerSynergy" /\ ~call.done
    /\ LET p == call.args[1]
           R == call.args[2]
       IN  Returns(<<calculatePlayerSynergy(p, Append(R, p)),
                     calculateSynergy(Append(R, p)),
                     calculateSynergy(R)>>)
    /\ UNCHANGED <<auctionVars, emitted, lastAction, connVars, issuer, connEvents,
                   dbConnected, saving>>

FnInit == CurInit \/ IncInit \/ SynInit \/ PlayerSynInit

FnNext ==
    \/ Apply_getCurrentPlayer
    \/ Apply_getIncrement
    \/ Apply_calculateSynergy
    \/ Apply_calculatePlayerSynergy

SpecFn == FnInit /\ [][FnNext]_vars

-----------------------------------------------------------------------------
(* Properties.                                                              *)

\* the prices a team paid, in roster order
BoughtPrices(team) == [i \in 1..Len(team.players) |-> team.players[i].boughtPrice]

\* C1: in every reachable state of both variants every team satisfies
\* remaining + spent = budget, and spent is the sum of boughtPrice over its
\* roster.
C1_LedgerConsistent ==
    \A t \in TeamIds :
        /\ teams[t].remaining + teams[t].spent = teams[t].budget
        /\ teams[t].spent = SumSeq(BoughtPrices(teams[t]))

\* a team holds a purchase right after a successful undo
C1_Witness ==
    /\ lastAction.op = "undo" /\ lastAction.ok
    /\ \E t \in TeamIds : teams[t].spent > 0 /\ teams[t].players # <<>>

\* C2: in every reachable state no team's roster is longer than the roster
\* cap, although only the bid checks the roster size and undo, resetBid or
\* reset may come between the bid and the sale.
C2_RosterCap == \A t \in TeamIds : Len(teams[t].players) <= rosterCap

\* a sale has just filled a roster of the largest cap
C2_Witness ==
    /\ lastAction.op = "sold" /\ lastAction.ok
    /\ rosterCap = MaxRoster
    /\ \E t \in TeamIds : Len(teams[t].players) = rosterCap


\* the status of item i in allPlayers (the first entry, as updatePlayerStatus
\* finds it); "none" when allPlayers has no entry for i
StatusOf(ap, i) ==
    LET k == FindFrom([j \in 1..Len(ap) |-> ap[j].sNo], i, 1)
    IN  IF k = 0 THEN "none" ELSE ap[k].status

\* how many roster entries, over all teams, hold item i
RECURSIVE CountIn(_, _)
CountIn(s, x) ==
    IF s = <<>> THEN 0
    ELSE (IF Head(s) = x THEN 1 ELSE 0) + CountIn(Tail(s), x)

TimesAwarded(tms, i) == SumSeq([t \in TeamIds |-> CountIn(RosterIds(tms[t]), i)])

\* C3: in every state reached by placeBid, sell, skip, resetBid and undo an
\* item has status sold if and only if it appears in exactly one team's
\* roster, exactly once, and no item is in the rosters twice.
C3_NoDoubleAward ==
    resets = 0 =>
        \A i \in 1..NumItems :
            /\ TimesAwarded(teams, i) <= 1
            /\ StatusOf(allPlayers, i) = "sold" <=> TimesAwarded(teams, i) = 1

\* getCurrentPlayer() of the running variant
CurrentPlayer == IF variant = "server" THEN Srv_getCurrentPlayer ELSE P0_getCurrentPlayer

\* the bids reachable from base by applications of bid -> bid + getIncrement(bid)
BidChain(base) == {RaisedBid(base, k) : k \in 0..MaxRaises}

\* C4: in every reachable state (taken when no reload of players.csv is in
\* progress) currentBid is 0 or is the active item's basePrice followed by
\* zero or more applications of bid -> bid + getIncrement(bid).
C4_BidOnChain ==
    loadStage = "idle" =>
        \/ currentBid = 0
        \/ /\ CurrentPlayer # NoPlayer
           /\ currentBid \in BidChain(basePrice(CurrentPlayer))

\* the allPlayers entry of item i (the first one); <<>> when there is none
EntryOf(ap, i) ==
    LET k == FindFrom([j \in 1..Len(ap) |-> ap[j].sNo], i, 1)
    IN  IF k = 0 THEN <<>> ELSE ap[k]

\* the step handles undoLastAction right after a successful op
UndoRightAfter(op) ==
    lastAction.op = op /\ lastAction.ok /\ lastAction'.op = "undo"

\* C5: if a sale succeeds and undo is the very next operator action, then
\* every team's remaining, spent, roster and synergy, the sold item's
\* status/soldToTeam/soldPrice, and currentPlayerIndex are what they were
\* immediately before the sale.
C5_UndoOfSale ==
    [][UndoRightAfter("sold") =>
          /\ teams' = lastAction.pre.teams
          /\ EntryOf(allPlayers', lastAction.pre.currentPlayer)
               = EntryOf(lastAction.pre.allPlayers, lastAction.pre.currentPlayer)
          /\ currentPlayerIndex' = lastAction.pre.currentPlayerIndex]_vars

\* the status of every item of the catalog
Statuses(ap) == [i \in 1..NumItems |-> StatusOf(ap, i)]

\* C6: if a skip succeeds and undo is the very next operator action, then
\* currentPlayerIndex, currentBid, currentBidTeam, isReAuction, unsold,
\* reAuctionUnsold and every item status are what they were before the skip,
\* also when the skip started the re-auction or completed the auction.
C6_UndoOfSkip ==
    [][UndoRightAfter("skip") =>
          /\ currentPlayerIndex' = lastAction.pre.currentPlayerIndex
          /\ currentBid' = lastAction.pre.currentBid
          /\ currentBidTeam' = lastAction.pre.currentBidTeam
          /\ isReAuction' = lastAction.pre.isReAuction
          /\ unsold' = lastAction.pre.unsold
          /\ reAuctionUnsold' = lastAction.pre.reAuctionUnsold
          /\ Statuses(allPlayers') = Statuses(lastAction.pre.allPlayers)]_vars

\* the step handles a placeBidForTeam that places a bid
BidStep == steps' # steps /\ lastAction'.op = "placeBid" /\ lastAction'.ok

\* a bid pushes the snapshot of the state before it, and the undo right after
\* a bid takes back that bid only
BidIsUndoable ==
    /\ BidStep =>
          /\ auctionHistory' # <<>>
          /\ auctionHistory'[Len(auctionHistory')].action = "BEFORE_BID"
          /\ auctionHistory'[Len(auctionHistory')].state.currentBid = currentBid
          /\ auctionHistory'[Len(auctionHistory')].state.currentBidTeam = currentBidTeam
    /\ UndoRightAfter("placeBid") =>
          /\ currentBid' = lastAction.pre.currentBid
          /\ currentBidTeam' = lastAction.pre.currentBidTeam
          /\ teams' = teams
          /\ Statuses(allPlayers') = Statuses(allPlayers)
          /\ currentPlayerIndex' = currentPlayerIndex

\* C7: every successful placeBid pushes one snapshot tagged BEFORE_BID that
\* holds the bid and bidder standing before it, and an undo right after a
\* successful placeBid restores that bid and bidder and changes no team, item
\* status or index.
C7_BidSnapshot == [][BidIsUndoable]_vars

\* the step handles a soldPlayer that sells the current item, with no reload of
\* players.csv in progress
SaleStep ==
    /\ steps' # steps /\ lastAction'.op = "sold" /\ lastAction'.ok
    /\ loadStage = "idle"

\* the step moves the auction from the main phase into the re-auction
ReAuctionStarts == ~isReAuction /\ isReAuction'

\* C8: after every successful sale the sold item has status sold,
\* getCurrentPlayer() no longer returns that item, and currentPlayerIndex is
\* one greater than before the sale (read with the one exception the
\* re-auction policy makes: the index restarts at 0 when the sale starts the
\* re-auction).
C8_SaleAdvances ==
    [][SaleStep =>
          /\ StatusOf(allPlayers', CurrentPlayer) = "sold"
          /\ CurrentPlayer' # CurrentPlayer
          /\ \/ currentPlayerIndex' = currentPlayerIndex + 1
             \/ ReAuctionStarts /\ currentPlayerIndex' = 0]_vars

\* the step handles a sale or a skip of the last item of the main sequence
ExhaustStep ==
    /\ steps' # steps /\ lastAction'.op \in {"sold", "skip"} /\ lastAction'.ok
    /\ ~isReAuction
    /\ currentPlayerIndex + 1 >= Len(players)

\* the unsold queue as the handler of the step leaves it for the phase decision
UnsoldAtBoundary ==
    IF lastAction'.op = "skip" THEN Append(unsold, CurrentPlayer) ELSE unsold

\* the events of a handler include one named name
Announced(events, name) == \E k \in DOMAIN events : events[k].ev = name

\* the re-auction is due: items are queued as unsold and some team has room
ReAuctionDue ==
    /\ UnsoldAtBoundary # <<>>
    /\ \E t \in TeamIds : Len(teams'[t].players) < rosterCap

\* C9: when a sale or a skip exhausts the main sequence, the phase becomes
\* re-auction if and only if unsold is non-empty and some team has fewer
\* roster entries than the cap; otherwise auctionComplete is announced and no
\* item is active.
C9_ReAuctionTrigger ==
    [][ExhaustStep =>
          /\ isReAuction' <=> ReAuctionDue
          /\ ~ReAuctionDue =>
                Announced(emitted', "auctionComplete") /\ CurrentPlayer' = NoPlayer]_vars

\* s and t hold the same items, each the same number of times
IsPermutation(s, t) ==
    /\ Len(s) = Len(t)
    /\ \A x \in Range(s) \cup Range(t) : CountIn(s, x) = CountIn(t, x)

\* the items no team holds: once the main sequence is exhausted, the items
\* skipped and not sold afterwards
NeverSold(tms) == {i \in 1..NumItems : TimesAwarded(tms, i) = 0}

\* C10: at the moment the phase becomes re-auction, currentPlayerIndex = 0,
\* currentBid = 0, and reAuctionUnsold is a permutation of the unsold queue
\* the re-auction is started from (of the same length) that holds exactly the
\* items skipped and never sold in the main phase, each once - also when undo
\* was used during the main phase.
C10_ReAuctionStart ==
    [][resets = 0 /\ ReAuctionStarts =>
          /\ currentPlayerIndex' = 0
          /\ currentBid' = 0
          /\ IsPermutation(reAuctionUnsold', UnsoldAtBoundary)
          /\ Range(reAuctionUnsold') = NeverSold(teams')
          /\ \A i \in Range(reAuctionUnsold') : CountIn(reAuctionUnsold', i) = 1]_vars

\* the step handles a sale or a skip that resolves the active item, in a run in
\* which neither undoLastAction nor resetAuction was issued
PlainResolve ==
    /\ steps' # steps /\ lastAction'.op \in {"sold", "skip"} /\ lastAction'.ok
    /\ lastAction'.resolved > 0

\* the number of successful sell/skip actions that complete the auction: the
\* catalog, plus the re-auction queue once the re-auction was entered
ItemsToResolve ==
    Len(players) + (IF isReAuction THEN Len(reAuctionUnsold) ELSE 0)

\* the winner carried by the auctionComplete event among events; NoTeam when
\* the event is absent
DeclaredWinner(events) ==
    IF Announced(events, "auctionComplete")
    THEN events[CHOOSE k \in DOMAIN events : events[k].ev = "auctionComplete"].winner
    ELSE NoTeam

\* what a successful sell/skip of a run without undo and reset leaves behind
ResolveCountsDown ==
    PlainResolve =>
        /\ lastAction'.resolved = lastAction.resolved + 1
        /\ lastAction'.resolved =
              (IF isReAuction' THEN Len(players) + currentPlayerIndex'
               ELSE currentPlayerIndex')
        /\ isReAuction => isReAuction'
        /\ Len(reAuctionUnsold') <= Len(players)
        /\ lastAction'.resolved <= ItemsToResolve'
        /\ CurrentPlayer' # NoPlayer <=> lastAction'.resolved < ItemsToResolve'
        /\ CurrentPlayer' = NoPlayer <=> Announced(emitted', "auctionComplete")
        /\ CurrentPlayer' = NoPlayer => DeclaredWinner(emitted') \in TeamIds

RanksAtLeast(tms, t, u) ==
    \/ tms[t].synergy > tms[u].synergy
    \/ tms[t].synergy = tms[u].synergy /\ tms[t].remaining >= tms[u].remaining

\* C12: whenever auctionComplete is announced, the declared winner is a team
\* of maximal synergy, and among the teams of maximal synergy one of maximal
\* remaining budget.
C12_WinnerIsBest ==
    Announced(emitted, "auctionComplete") =>
        /\ DeclaredWinner(emitted) \in TeamIds
        /\ \A t \in TeamIds : RanksAtLeast(teams, DeclaredWinner(emitted), t)

\* the team named by the bidPlaced event of a successful placeBidForTeam
BidderOf(events) == events[1].teamId

\* C13: a successful placeBid(teamId) sets currentBidTeam to teamId and
\* currentBid to the active item's basePrice when currentBid was 0 and to
\* currentBid + getIncrement(currentBid) otherwise; an opening bid is never
\* basePrice plus an increment.
C13_BidAmount ==
    [][BidStep =>
          /\ currentBidTeam' = BidderOf(emitted')
          /\ currentBidTeam' \in TeamIds
          /\ currentBid = 0 =>
                /\ currentBid' = basePrice(CurrentPlayer)
                /\ currentBid' # basePrice(CurrentPlayer)
                                  + getIncrement(basePrice(CurrentPlayer))
          /\ currentBid # 0 => currentBid' = currentBid + getIncrement(currentBid)]_vars

\* a standing bid has just been raised by the other team
C13_Witness ==
    /\ lastAction.op = "placeBid" /\ lastAction.ok
    /\ lastAction.pre.currentBid = basePrice(CurrentPlayer)
    /\ lastAction.pre.currentBidTeam # currentBidTeam
    /\ currentBid = lastAction.pre.currentBid + getIncrement(lastAction.pre.currentBid)

\* the step handles a placeBidForTeam or a soldPlayer that is rejected
RejectedStep ==
    /\ steps' # steps
    /\ lastAction'.op \in {"placeBid", "sold"}
    /\ ~lastAction'.ok

\* a rejected handler leaves the auction as it found it
RejectionChangesNothing ==
    RejectedStep =>
        UNCHANGED <<players, sets, allPlayers, unsold, reAuctionUnsold,
                    currentPlayerIndex, currentBid, currentBidTeam, isReAuction,
                    teams, auctionHistory>>

\* C14: a rejected placeBid (team id out of range, no active item, roster at
\* the cap, remaining < newBid) and a rejected sell (no active item, no bid,
\* no bidder, bidder's remaining < currentBid) leave every auction field,
\* team, item status and the history unchanged, and send one error event, to
\* the issuing connection only.
C14_RejectionsAreInert ==
    [][/\ RejectionChangesNothing
       /\ RejectedStep =>
             /\ Len(emitted') = 1
             /\ emitted'[1].ev = "error"
             /\ emitted'[1].to = issuer']_vars

\* the step completes a reset: the reload of players.csv started by
\* resetAuction ends, and no socket event was handled while it was in progress
ResetCompletes == loadStage = "parsed" /\ loadStage' = "idle" /\ loadOps = 0

\* C19: when a reset completes, the history, unsold and reAuctionUnsold are
\* empty, currentPlayerIndex = 0, currentBid = 0, currentBidTeam is null, the
\* phase is the main auction, and every team has remaining = budget,
\* spent = 0, an empty roster and synergy 0.
C19_ResetIsFresh ==
    [][ResetCompletes =>
          /\ auctionHistory' = <<>>
          /\ unsold' = <<>> /\ reAuctionUnsold' = <<>>
          /\ currentPlayerIndex' = 0
          /\ currentBid' = 0 /\ currentBidTeam' = NoTeam
          /\ ~isReAuction'
          /\ \A t \in TeamIds :
                /\ teams'[t].remaining = teams'[t].budget
                /\ teams'[t].spent = 0
                /\ teams'[t].players = <<>>
                /\ teams'[t].synergy = 0]_vars

\* the step handles a skipPlayer that skips the active item of the main phase,
\* with no reload of players.csv in progress
MainSkipStep ==
    /\ steps' # steps /\ lastAction'.op = "skip" /\ lastAction'.ok
    /\ ~isReAuction
    /\ loadStage = "idle"

\* the last element of a non-empty queue is x
LastIs(q, x) == q # <<>> /\ q[Len(q)] = x

\* C20: after a successful skip in the main phase the skipped item is the
\* last element of unsold (or, when the skip starts the re-auction, is in the
\* re-auction queue built from it) and has status unsold, currentPlayerIndex
\* advanced (or restarted at 0 with the re-auction), currentBid and
\* currentBidTeam are cleared, and no team changed.
C20_SkipQueuesUnsold ==
    [][MainSkipStep =>
          /\ \/ LastIs(unsold', CurrentPlayer)
             \/ ReAuctionStarts /\ CurrentPlayer \in Range(reAuctionUnsold')
          /\ StatusOf(allPlayers', CurrentPlayer) = "unsold"
          /\ \/ currentPlayerIndex' = currentPlayerIndex + 1
             \/ ReAuctionStarts /\ currentPlayerIndex' = 0
          /\ currentBid' = 0 /\ currentBidTeam' = NoTeam
          /\ teams' = teams]_vars

\* the auction: the catalog order, the queues, the bid, the phase, the teams,
\* the item statuses and the history
AuctionState ==
    <<players, sets, allPlayers, unsold, reAuctionUnsold, currentPlayerIndex,
      currentBid, currentBidTeam, isReAuction, teams, auctionHistory>>

\* a socket event changes the auction only when its socket is open and a member
\* of the auctioneer room, and an auctioneer event of any other socket changes
\* nothing
OnlyOperatorMutates ==
    /\ issuer' # NoSocket /\ AuctionState' # AuctionState =>
          /\ sockets[issuer'].status = "open"
          /\ sockets[issuer'].auctioneer
          /\ lastAction'.op \in {"placeBid", "sold", "skip", "resetBid", "undo", "reset"}
    /\ lastAction'.op = "unauthorized" /\ connEvents' # connEvents =>
          /\ ~sockets[issuer'].auctioneer
          /\ AuctionState' = AuctionState
          /\ UNCHANGED <<connVars, loadStage>>

\* C15: placeBid, sell, skip, resetBid, undo and reset change the auction only
\* when issued by the connection that holds the operator role; sent by a team
\* connection, an observer, a connection that never joined or one whose
\* operator join was rejected, they leave the state unchanged.
C15_OperatorOnly == [][OnlyOperatorMutates]_vars

\* with a bid standing, an auctioneer event of a socket bound to a team slot
\* has just been turned away
C15_Witness ==
    /\ lastAction.op = "unauthorized"
    /\ issuer # NoSocket
    /\ \E t \in TeamIds : teamSocketId[t] = issuer
    /\ currentBid > 0
    /\ auctioneerConnected

\* the open sockets that pass the role test of the auctioneer handlers
Operators == {s \in Sockets : sockets[s].status = "open" /\ sockets[s].auctioneer}

\* the step handles a joinAsAuctioneer of a socket while another one holds the role
SecondOperatorJoin ==
    /\ connEvents' # connEvents
    /\ lastAction'.op = "joinAsAuctioneer"
    /\ Operators # {} /\ issuer' \notin Operators

\* one operator at most, and a second request is refused
OperatorIsExclusive ==
    /\ Cardinality(Operators') <= 1
    /\ SecondOperatorJoin =>
          /\ Announced(emitted', "forceDisconnect")
          /\ \A k \in DOMAIN emitted' :
                emitted'[k].ev = "forceDisconnect" => emitted'[k].to = issuer'
          /\ ~sockets'[issuer'].auctioneer
          /\ Operators' = Operators
          /\ auctioneerConnected'
          /\ \A o \in Operators : HoldsOperatorRole(o)'

\* C16: at most one connection holds the operator role at any time; a
\* connection that requests the role while another holds it is sent
\* forceDisconnect and gets no operator rights, and the holder keeps the role
\* and still passes the role test of the operator actions.
C16_OperatorExclusive == [][OperatorIsExclusive]_vars

\* a second socket has just asked for the role held by the first and was refused
C16_Witness ==
    /\ lastAction.op = "joinAsAuctioneer" /\ ~lastAction.ok
    /\ Operators # {} /\ issuer \notin Operators
    /\ Announced(emitted, "forceDisconnect")

\* the step handles joinAsTeam(t) of a socket while another socket occupies slot t
TakeoverRequest(t) ==
    /\ connEvents' # connEvents
    /\ lastAction'.op = "joinAsTeam" /\ lastAction'.arg = t
    /\ teamSocketId[t] # NoSocket /\ teamSocketId[t] # issuer'

\* the step handles the disconnect of a socket that is not the occupant of slot t
OutsiderLeaves(t) ==
    /\ connEvents' # connEvents
    /\ lastAction'.op = "disconnect"
    /\ teamSocketId[t] # issuer'

\* the last writer wins a team slot and keeps it when the loser disconnects
LastWriterWins ==
    \A t \in TeamIds :
        /\ TakeoverRequest(t) =>
              /\ teamSocketId'[t] = issuer'
              /\ teamIsConnected'[t]
              /\ \E k \in DOMAIN emitted' :
                    emitted'[k] = EvTo("forceDisconnect", teamSocketId[t])
        /\ OutsiderLeaves(t) =>
              /\ teamSocketId'[t] = teamSocketId[t]
              /\ teamIsConnected'[t] = teamIsConnected[t]

\* C17: when a connection requests a team slot occupied by a different
\* connection, the new connection becomes the occupant and the previous
\* occupant is sent forceDisconnect; the disconnect of a connection that is
\* not the occupant of a slot, such as the previous occupant, leaves the
\* slot's binding as it is.
C17_TeamTakeover == [][LastWriterWins]_vars

\* the step handles the disconnect of the socket that holds the operator role,
\* and the handler could still see that the socket held it
OperatorLeaves ==
    /\ connEvents' # connEvents
    /\ lastAction'.op = "disconnect" /\ lastAction'.arg = 1
    /\ issuer' \in Operators

\* the step handles a joinAsAuctioneer while no socket holds the operator role
JoinOfFreeRole ==
    /\ connEvents' # connEvents
    /\ lastAction'.op = "joinAsAuctioneer"
    /\ Operators = {}

\* no team slot names a socket that has disconnected, and a slot that counts as
\* connected names an open socket
SlotsReleased ==
    \A t \in TeamIds :
        /\ teamSocketId[t] # NoSocket => sockets[teamSocketId[t]].status = "open"
        /\ teamIsConnected[t] => teamSocketId[t] # NoSocket

\* what a disconnect leaves behind
DisconnectReleases ==
    /\ OperatorLeaves => ~auctioneerConnected' /\ Operators' = {}
    /\ JoinOfFreeRole => lastAction'.ok /\ issuer' \in Operators'
    /\ SlotsReleased'

\* C18: after the operator connection disconnects the operator slot is free
\* and a later joinAsAuctioneer of another connection is accepted; after a
\* connection that joined one or more team slots disconnects, no team slot
\* records it as occupant or as connected.
C18_DisconnectReleases == [][DisconnectReleases]_vars

\* the step handles undoLastAction with exactly one snapshot in the history
UndoOfLastSnapshot ==
    /\ steps' # steps /\ lastAction'.op = "undo"
    /\ Len(auctionHistory) = 1

\* the step handles undoLastAction right after an undo that emptied the history
UndoAfterLastUndo ==
    /\ steps' # steps /\ lastAction'.op = "undo"
    /\ lastAction.op = "undo" /\ lastAction.ok
    /\ auctionHistory = <<>>

\* the first undo restores the one snapshot, the second is refused
SecondUndoIsInert ==
    /\ UndoOfLastSnapshot =>
          /\ lastAction'.ok
          /\ auctionHistory' = <<>>
          /\ currentPlayerIndex' = auctionHistory[1].state.currentPlayerIndex
          /\ currentBid' = auctionHistory[1].state.currentBid
          /\ currentBidTeam' = auctionHistory[1].state.currentBidTeam
          /\ isReAuction' = auctionHistory[1].state.isReAuction
          /\ teams' = auctionHistory[1].state.teams
          /\ allPlayers' = auctionHistory[1].state.allPlayers
    /\ UndoAfterLastUndo =>
          /\ ~lastAction'.ok
          /\ AuctionState' = AuctionState
          /\ Len(emitted') = 1
          /\ emitted'[1].ev = "error"
          /\ emitted'[1].to = issuer'

\* C21: with exactly one snapshot in the history and undo issued twice in a
\* row, the first undo restores that snapshot and the second sends an error to
\* the issuer and changes no auction field, team, item status or history
\* entry.
C21_SecondUndoIsInert == [][SecondUndoIsInert]_vars

\* the step handles an undoLastAction that restores a snapshot
UndoStep == steps' # steps /\ lastAction'.op = "undo" /\ lastAction'.ok

\* C22: for every team socketId and isConnected after an undo are what they
\* were immediately before it, not what they were when the snapshot was
\* taken, and connectedTeams and auctioneerConnected are unchanged.
C22_UndoKeepsConnectivity ==
    [][UndoStep =>
          /\ teamSocketId' = teamSocketId
          /\ teamIsConnected' = teamIsConnected
          /\ connectedTeams' = connectedTeams
          /\ auctioneerConnected' = auctioneerConnected
          /\ sockets' = sockets]_vars

\* an undo has just restored a snapshot taken when a team slot was occupied
\* differently from now
C22_Witness ==
    /\ lastAction.op = "undo" /\ lastAction.ok
    /\ \E t \in TeamIds :
          /\ teamIsConnected[t] /\ teamSocketId[t] # NoSocket
          /\ ~lastAction.savedIsConnected[t]

\* the step handles resetBid
ResetBidStep == steps' # steps /\ lastAction'.op = "resetBid"

\* what resetBid changes and what it leaves alone
ResetBidFrame ==
    ResetBidStep =>
        /\ lastAction'.ok <=> CurrentPlayer # NoPlayer
        /\ lastAction'.ok => currentBid' = 0 /\ currentBidTeam' = NoTeam
        /\ ~lastAction'.ok => UNCHANGED <<currentBid, currentBidTeam>>
        /\ UNCHANGED <<players, sets, allPlayers, unsold, reAuctionUnsold,
                       currentPlayerIndex, isReAuction, teams, auctionHistory>>

\* C23: a successful resetBid sets currentBid to 0 and currentBidTeam to null
\* and changes nothing else (index, phase, teams, item statuses, unsold,
\* reAuctionUnsold, history: no snapshot is pushed); with no active item it
\* is rejected and changes nothing.
C23_ResetBidFrame == [][ResetBidFrame]_vars

\* a standing bid has just been cleared by resetBid, with a snapshot in the history
C23_Witness ==
    /\ lastAction.op = "resetBid" /\ lastAction.ok
    /\ lastAction.pre.currentBid > 0 /\ lastAction.pre.currentBidTeam # NoTeam
    /\ currentBid = 0 /\ currentBidTeam = NoTeam
    /\ auctionHistory # <<>>

\* the step pushes a snapshot: the history changes in a handler other than
\* undoLastAction and resetAuction
PushStep ==
    /\ steps' # steps
    /\ lastAction'.op \notin {"undo", "reset"}
    /\ auctionHistory' # auctionHistory

\* all of q but its last element
Front(q) == SubSeq(q, 1, Len(q) - 1)

\* the history is a bounded stack that evicts its oldest entry
HistoryIsBoundedStack ==
    /\ Len(auctionHistory') <= MAX_HISTORY_SIZE
    /\ PushStep =>
          /\ auctionHistory' # <<>>
          /\ auctionHistory'[Len(auctionHistory')].state.currentBid = currentBid
          /\ auctionHistory'[Len(auctionHistory')].state.currentPlayerIndex
                = currentPlayerIndex
          /\ auctionHistory'[Len(auctionHistory')].state.teams = teams
          /\ Front(auctionHistory') =
                (IF Len(auctionHistory) < MAX_HISTORY_SIZE THEN auctionHistory
                 ELSE Tail(auctionHistory))
    /\ UndoStep =>
          /\ auctionHistory # <<>>
          /\ auctionHistory' = Front(auctionHistory)
          /\ currentBid' = auctionHistory[Len(auctionHistory)].state.currentBid
          /\ teams' = auctionHistory[Len(auctionHistory)].state.teams

\* C24: the history never holds more than MAX_HISTORY_SIZE snapshots; a push
\* onto a full history drops the oldest snapshot and keeps the order of the
\* others, so that undo always pops the snapshot pushed last.
C24_HistoryBounded == [][HistoryIsBoundedStack]_vars

\* more snapshots were pushed than the history holds, none was popped, and the
\* history is full
C24_Witness ==
    /\ variant = "part_000"
    /\ lastAction.op \in {"sold", "skip"} /\ lastAction.ok
    /\ lastAction.resolved > MAX_HISTORY_SIZE
    /\ Len(auctionHistory) = MAX_HISTORY_SIZE

\* the step suspends a handler at `await saveState()`
SaveAwaited == Len(saving') > Len(saving)

\* the handler that is suspended at the save has broadcast `update` before,
\* and is not going to broadcast it when the save returns
BroadcastBeforeSave ==
    SaveAwaited =>
        /\ Announced(emitted', "update")
        /\ saving'[Len(saving')] # "update"

\* C25: in part_000, sell, skip, undo and reset change the state and broadcast
\* the `update` that shows the change before they await the save, so that a
\* slow save delays no broadcast of the new state.
C25_BroadcastBeforeSave == [][BroadcastBeforeSave]_vars

\* an operator handler other than resetAuction runs and acts
OperatorActs ==
    /\ steps' # steps
    /\ lastAction'.op \in {"placeBid", "sold", "skip", "resetBid", "undo"}
    /\ lastAction'.ok

\* C26: no operator action (placeBid, sell, skip, resetBid, undo) is processed
\* between the moment reset starts clearing the state and the moment the
\* reloaded catalog is partitioned into sets.
C26_MutationsSerialized == [][OperatorActs => loadStage = "idle"]_vars

\* the i-th item (from 0) of list q, none past its end
ItemAt(q, i) == IF i < Len(q) THEN q[i + 1] ELSE NoPlayer

\* the sets in order, one after the other
Concatenated == sets[1] \o sets[2] \o sets[3]

\* C27: with the catalog of n >= 1 items partitioned into three sets of at
\* most ceil(n/3) items that hold every item once and, concatenated, give the
\* shuffled list, getCurrentPlayer() returns the item at currentPlayerIndex of
\* that list in the main phase and of the re-auction queue in the re-auction,
\* and none when the index is past the end.
C27_CurrentPlayerIsIndexed ==
    (call.fn = "getCurrentPlayer" /\ call.done) =>
        /\ Concatenated = players
        /\ \A k \in 1..3 : Len(sets[k]) <= CeilDiv(Len(players), 3)
        /\ \A p \in Range(players) :
              Cardinality({<<k, i>> \in (1..3) \X (1..Len(players)) :
                             i <= Len(sets[k]) /\ sets[k][i] = p}) = 1
        /\ call.result[1] = ItemAt(IF isReAuction THEN reAuctionUnsold ELSE players,
                                   currentPlayerIndex)

\* the last item of a catalog that does not fill three equal sets was returned
C27_Witness ==
    /\ call.fn = "getCurrentPlayer" /\ call.done
    /\ ~isReAuction
    /\ Len(players) = 4
    /\ currentPlayerIndex = 3
    /\ call.result[1] = players[4]

\* C28: getIncrement is strictly positive for every bid >= 0 and
\* non-decreasing: for bids a <= b, getIncrement(a) <= getIncrement(b); so the
\* raise of a standing bid a, a + getIncrement(a), is strictly above a.
C28_IncrementMonotone ==
    (call.fn = "getIncrement" /\ call.done) =>
        LET a == call.args[1]
            b == call.args[2]
        IN  /\ a >= 0 /\ a <= b
            /\ call.result[1] > 0
            /\ call.result[2] > 0
            /\ call.result[1] <= call.result[2]
            /\ a + call.result[1] > a

\* the increments of a bid below the first threshold and of a bid at the last
C28_Witness ==
    /\ call.fn = "getIncrement" /\ call.done
    /\ call.args[1] = 4999999
    /\ call.args[2] = 20000000
    /\ call.result = <<500000, 5000000>>

\* C29: calculateSynergy returns the same value for every reordering of a
\* roster, and 0 for an empty roster and for a roster that is no list.
C29_SynergyIsOrderFree ==
    (call.fn = "calculateSynergy" /\ call.done) =>
        /\ call.result[1] = call.result[2]
        /\ call.args[1] \in {<<>>, NotAList} => call.result[1] = 0

\* a roster of three archetypes and its reversal: 200 of base scores and the
\* three pair bonuses
C29_Witness ==
    /\ call.fn = "calculateSynergy" /\ call.done
    /\ call.args = << <<1, 2, 4>>, <<4, 2, 1>> >>
    /\ call.result = <<240, 240>>

\* calculateSynergy was applied to a value that is no list
C29_NonListApplied ==
    call.fn = "calculateSynergy" /\ call.done /\ call.args[1] = NotAList

\* C30: for a roster R and an item p not in R, the individual synergy stored
\* at the sale, calculatePlayerSynergy(p, R plus p), is the marginal
\* contribution calculateSynergy(R plus p) - calculateSynergy(R).
C30_IndividualIsMarginal ==
    (call.fn = "calculatePlayerSynergy" /\ call.done) =>
        /\ call.args[1] \notin Range(call.args[2])
        /\ call.result[2] - call.result[3] = call.result[1]

\* item 2 joins the roster of items 1 and 4: its base score 70 and the two
\* pair bonuses with it
C30_Witness ==
    /\ call.fn = "calculatePlayerSynergy" /\ call.done
    /\ call.args[1] = 2
    /\ call.args[2] = <<1, 4>>
    /\ call.result = <<100, 240, 140>>

\* with that, the synergy of a team is the sum of the individual synergies of
\* its roster
SynergyIsSumOfIndividual ==
    \A t \in TeamIds :
        teams[t].synergy =
            SumSeq([i \in 1..Len(teams[t].players) |->
                       teams[t].players[i].individualSynergy])

\* C36: in every reachable state the synergy of every team is
\* calculateSynergy of its roster, also after undo, reset and sales made in
\* the re-auction.
C36_SynergyIsDerived ==
    \A t \in TeamIds : teams[t].synergy = calculateSynergy(RosterIds(teams[t]))

\* a sale of the re-auction has just been made
C36_Witness ==
    /\ isReAuction
    /\ lastAction.op = "sold" /\ lastAction.ok
    /\ \E t \in TeamIds : teams[t].players # <<>> /\ teams[t].synergy > 0

\* a sale was undone and a team still has a roster
C36_AfterUndo ==
    /\ lastAction.op = "undo" /\ lastAction.ok
    /\ \E t \in TeamIds : teams[t].players # <<>>

\* C37: in every reachable state every team has 0 <= remaining <= budget and
\* 0 <= spent <= budget.
C37_NoOverspending ==
    \A t \in TeamIds :
        /\ 0 <= teams[t].remaining /\ teams[t].remaining <= teams[t].budget
        /\ 0 <= teams[t].spent /\ teams[t].spent <= teams[t].budget

\* a bid was refused because the team cannot afford it
C37_Witness ==
    /\ lastAction.op = "placeBid" /\ ~lastAction.ok
    /\ emitted # <<>>
    /\ emitted[1].ev = "error"
    /\ emitted[1].msg \in {"insufficient funds", "Insufficient team budget"}
    /\ \E t \in TeamIds : teams[t].spent > 0

\* C40: in part_000 the unsold pool holds each item at most once and holds no
\* item whose status is sold, also after items are skipped again in the
\* re-auction.
C40_UnsoldHasNoDuplicates ==
    (variant = "part_000" /\ resets = 0) =>
        /\ \A i, j \in 1..Len(unsold) : unsold[i] = unsold[j] => i = j
        /\ \A i \in 1..Len(unsold) : StatusOf(allPlayers, unsold[i]) # "sold"

\* the team slots bound to socket s
SlotsOf(s) == {t \in TeamIds : teamSocketId[t] = s}

\* the number of roles socket s holds: operator, each team slot, observer
RolesOf(s) ==
    Cardinality(SlotsOf(s))
    + (IF sockets[s].auctioneer THEN 1 ELSE 0)
    + (IF sockets[s].observer THEN 1 ELSE 0)

\* C35: a connection is bound to at most one of operator, a single team slot
\* and observer; further join events of a connection that holds a role give
\* it no second role.
C35_OneRolePerConnection == \A s \in Sockets : RolesOf(s) <= 1

\* teams[t].socketId refers to a live connection
SlotIsLive(t) ==
    /\ teamSocketId[t] # NoSocket
    /\ sockets[IF teamSocketId[t] = NoSocket THEN 1 ELSE teamSocketId[t]].status = "open"

\* C38: in every reachable state, for every team id t, t is in connectedTeams
\* if and only if teams[t].isConnected is true if and only if
\* teams[t].socketId refers to a live connection.
C38_ConnectivityConsistent ==
    \A t \in TeamIds :
        /\ (t \in connectedTeams) = teamIsConnected[t]
        /\ teamIsConnected[t] = SlotIsLive(t)

\* the events of the last handler that went to more than one connection
Broadcasts == {k \in DOMAIN emitted : "to" \notin DOMAIN emitted[k]}

\* event e holds no team object with a connection reference
HidesConnections(e) ==
    "socketIds" \in DOMAIN e => \A i \in DOMAIN e.socketIds : e.socketIds[i] = NoSocket

\* C31: no event broadcast to more than the owning connection (update,
\* setSummary, auctionComplete, playerSold, connectionStatus) carries the
\* socketId of a team.
C31_NoIdentityDisclosed == \A k \in Broadcasts : HidesConnections(emitted[k])

\* a successful sell or skip of the main phase resolves the last item of a set
ResolvesEndOfSet ==
    /\ lastAction'.op \in {"sold", "skip"} /\ lastAction'.ok
    /\ ~isReAuction
    /\ players # <<>>
    /\ \/ (currentPlayerIndex + 1) % CeilDiv(Len(players), 3) = 0
       \/ currentPlayerIndex + 1 = Len(players)

\* C32: setSummary is broadcast exactly when a successful sell or skip of the
\* main phase resolves the last item of one of the three sets, and never in
\* the re-auction.
C32_SetSummaryAtBoundaries ==
    [][(steps' # steps /\ resets = 0 /\ loadStage = "idle")
         => (Announced(emitted', "setSummary") <=> ResolvesEndOfSet)]_vars

\* the auction has completed: no item is active
Complete == CurrentPlayer = NoPlayer /\ loadStage = "idle" /\ resets = 0

\* an operator action other than reset leaves a completed auction as it is
CompleteStays ==
    (Complete /\ steps' # steps /\ lastAction'.op # "reset") =>
        /\ UNCHANGED <<isReAuction, currentPlayerIndex, teams, allPlayers>>
        /\ lastAction'.op \in {"placeBid", "sold", "skip", "resetBid"} => ~lastAction'.ok

\* C33: once the auction has completed, no operator action other than reset
\* changes the phase, the index, a team or an item status: placeBid, sell,
\* skip and resetBid are rejected and undo does not move the auction back.
C33_CompleteIsTerminal == [][CompleteStays]_vars

\* an undo is accepted only right after a successful bid, sale or skip
UndoIsSingleStep ==
    (UndoStep /\ lastAction.ok /\ loadStage = "idle" /\ resets = 0) =>
        lastAction.op \in {"placeBid", "sold", "skip"}

\* C34: an undo is accepted only when the immediately preceding successful
\* operator action was a bid, a sale or a skip; an undo issued right after a
\* resetBid or after another undo is rejected.
C34_UndoIsSingleStep == [][UndoIsSingleStep]_vars

\* the archetype codes of the rules
Archetypes == Range(ArchetypeOrder)

\* the value the tables configure for key
TableValue(key) ==
    (IF key \in DOMAIN positiveRules THEN positiveRules[key] ELSE 0)
    + (IF key \in DOMAIN negativeRules THEN negativeRules[key] ELSE 0)

\* C39: for each key X-Y of the positive and negative tables, a roster of
\* exactly two members with archetypes X and Y, in either order, scores the
\* sum of their base scores plus the value of the table.
C39_EveryRuleTakesEffect ==
    (call.fn = "calculateSynergy" /\ call.done /\ call.args[1] # NotAList
       /\ Len(call.args[1]) = 2) =>
        LET p1 == call.args[1][1]
            p2 == call.args[1][2]
        IN  \A X, Y \in Archetypes :
               LET key == X \o "-" \o Y
               IN  (/\ key \in DOMAIN positiveRules \cup DOMAIN negativeRules
                    /\ \/ archetype(p1) = X /\ archetype(p2) = Y
                       \/ archetype(p1) = Y /\ archetype(p2) = X)
                   => call.result[1] = baseScore(p1) + baseScore(p2) + TableValue(key)

=============================================================================
